---- MODULE Spec2Model ----
(***************************************************************************)
(* Privilege graph resolution and change-diff engine of grantd-io.         *)
(*                                                                         *)
(*   SpecAccess   get_user_access  (routers/objects.py): the role          *)
(*                traversal traverse_roles, one step per call, child       *)
(*                iteration and return, then the grant aggregation.        *)
(*   SpecAggregate  the same handler over a short role graph and the       *)
(*                grant rows of every shape the aggregation tells apart.   *)
(*   SpecPreview  preview_role_sql (routers/objects.py): a role design     *)
(*                request is assembled item by item and then rendered.     *)
(*   SpecRender   one privilege grant rendered on the three paths that     *)
(*                render it: create-mode preview, edit-mode preview and    *)
(*                generate_sql_for_change (services/sql_generator.py).     *)
(*   SpecRenderAll  SpecRender with the two paths that render the revoke   *)
(*                of the privilege.                                        *)
(*   SpecRoleType  the stored rows of a connection are classified by the   *)
(*                sync driver (_calculate_role_types, sync/service.py)     *)
(*                and by get_role_details (routers/objects.py).            *)
(*   SpecSync     step 4 of run_sync (sync/service.py): the batch the       *)
(*                connector returned is upserted row by row into           *)
(*                role_assignments and committed.                          *)
(*   SpecChangeset  create_changeset (routers/changesets.py): the          *)
(*                changeset row is added and flushed, one statement is     *)
(*                generated per change, then the session commits.          *)
(*   SpecParse    _parse_object_name (services/sync/snowflake.py)          *)
(*                applied to a row of SHOW GRANTS TO ROLE.                 *)
(*   SpecSyncRun  trigger_sync (routers/sync.py) and the steps of          *)
(*                run_sync, several runs interleaving at the commits;      *)
(*                FairSpecSyncRun lets every queued task run to its end.   *)
(*   SpecSyncSerial  the same with a caller that triggers a sync only     *)
(*                when none is executing.                                  *)
(*   SpecLifecycle  request-review, approve, mark-applied and delete of    *)
(*                stored changesets (routers/changesets.py).               *)
(*   SpecApply    the CLI apply command (grantd_cli/commands/apply.py)     *)
(*                on a changeset stored by create_changeset.               *)
(*                                                                         *)
(* Python's None is modelled by the empty string wherever the code only    *)
(* tests the value for truthiness.                                         *)
(***************************************************************************)
EXTENDS Integers, Sequences, FiniteSets, TLC

VARIABLES
    pc,                 \* position of the request being served
    all_assignments,    \* role_assignments rows of the connection, in query order
    user_found,         \* whether the PlatformUser row exists
    user_direct_roles,  \* objects.py:739
    role_children,      \* objects.py:745
    roles_with_paths,   \* objects.py:753
    role_to_path,       \* objects.py:755
    visited_roles,      \* objects.py:756
    stack,              \* activation records of traverse_roles
    root_idx,           \* position of the loop at objects.py:780
    platform_grants,    \* platform_grants rows of the connection, in query order
    grants,             \* objects.py:787-796
    access,             \* the UserAccessResponse (databases and summary)
    design,             \* the RoleDesignRequest
    preview,            \* the SqlPreviewResponse
    render_request,     \* the privilege grant whose renderings are compared
    rendered,           \* the statement each rendering path produced
    connection,         \* changesets.py:50-55, the Connection row looked up
    changeset,          \* the ChangesetCreate request body
    session,            \* rows added to the database session, not yet committed
    store,              \* committed changesets with their changes
    response,           \* status of the create_changeset request
    role_types,         \* platform_roles.role_type as written by the sync driver
    role_details,       \* the RoleDetailResponse
    sync_batch,         \* assignments of the running sync not yet upserted
    sync_runs,          \* status of each sync run so far
    parse_input,        \* snowflake.py:241-242, a row of SHOW GRANTS TO ROLE
    parsed,             \* snowflake.py:243, what _parse_object_name returned
    tasks,              \* the run_sync background tasks and where each one is
    changesets,         \* the changesets table
    cli,                \* the local variables of the CLI apply command
    platform_log        \* the statements the platform was asked to execute

vars == <<pc, all_assignments, user_found, user_direct_roles, role_children,
          roles_with_paths, role_to_path, visited_roles, stack, root_idx,
          platform_grants, grants, access, design, preview,
          render_request, rendered, connection, changeset, session, store, response,
          role_types, role_details, sync_batch, sync_runs,
          parse_input, parsed, tasks, changesets, cli, platform_log>>

accessVars == <<all_assignments, user_found, user_direct_roles, role_children,
                roles_with_paths, role_to_path, visited_roles, stack, root_idx,
                platform_grants, grants, access>>

previewVars == <<design, preview>>

renderVars == <<render_request, rendered>>

changesetVars == <<connection, changeset, session, store, response>>

\* the variables of the other request handlers
roleTypeVars == <<role_types, role_details>>

syncVars == <<sync_batch, sync_runs>>

opsVars == <<parse_input, parsed, tasks, changesets, cli, platform_log>>

restVars == <<renderVars, changesetVars, roleTypeVars, syncVars, opsVars>>

(***************************************************************************)
(* Bounds and input universes                                              *)
(***************************************************************************)
MaxAssignments == 3
MaxGrants == 1
MaxItems == 3
MaxStoredGrants == 2
MaxChanges == 2
MaxBatch == 2
MaxSyncs == 2

RoleNames == {"ANALYST", "DATA_VIEWER", "ADMIN"}
user_name == "alice"

Assignment(r, t, n) == [role_name |-> r, assignee_type |-> t, assignee_name |-> n]

AssignmentUniverse ==
    {Assignment(r, "ROLE", n) : r \in RoleNames, n \in RoleNames}
    \cup {Assignment(r, "USER", user_name) : r \in RoleNames}
    \cup {Assignment("ANALYST", "USER", "bob")}

SeqsUpTo(S, n) == UNION {[1..k -> S] : k \in 0..n}

Grant(p, t, n, d, s, g) ==
    [privilege |-> p, object_type |-> t, object_name |-> n,
     object_database |-> d, object_schema |-> s,
     grantee_type |-> "ROLE", grantee_name |-> g]

GrantUniverse ==
    {Grant("SELECT", "TABLE", "T", "DB", "SCHEMA", "DATA_VIEWER"),
     Grant("SELECT", "VIEW", "V", "DB", "SCHEMA", "ANALYST"),
     Grant("USAGE", "DATABASE", "DB", "DB", "", "ADMIN"),
     Grant("USAGE", "SCHEMA", "SCHEMA", "DB", "SCHEMA", "DATA_VIEWER")}

(***************************************************************************)
(* Helpers                                                                 *)
(***************************************************************************)
Range(s) == {s[i] : i \in 1..Len(s)}

\* dict.get(key, default)
Get(d, k, default) == IF k \in DOMAIN d THEN d[k] ELSE default

\* d[key] = value
Put(d, k, v) == [x \in (DOMAIN d) \cup {k} |-> IF x = k THEN v ELSE d[x]]

EmptyDict == [x \in {} |-> <<>>]

\* " → ".join(path)
RECURSIVE JoinPath(_)
JoinPath(path) ==
    IF Len(path) = 0 THEN ""
    ELSE IF Len(path) = 1 THEN path[1]
    ELSE path[1] \o " → " \o JoinPath(Tail(path))


\* str.upper() on the object-type words the inputs are drawn from
Upper(s) ==
    CASE s = "database" -> "DATABASE"
      [] s = "Database" -> "DATABASE"
      [] s = "table" -> "TABLE"
      [] s = "role" -> "ROLE"
      [] s = "user" -> "USER"
      [] OTHER -> s

\* Python's string order on the names the inputs are drawn from
NameOrder == <<"ACCOUNT", "DB", "DB2", "SCHEMA", "SCHEMA2">>

\* sorted(keys)
Sorted(S) == SelectSeq(NameOrder, LAMBDA n : n \in S)

(***************************************************************************)
(* get_user_access: role graph                                             *)
(***************************************************************************)
\* objects.py:739-742
UserDirectRoles(assignments) ==
    LET mine == SelectSeq(assignments,
                    LAMBDA a : a.assignee_type = "USER" /\ a.assignee_name = user_name)
    IN  [i \in 1..Len(mine) |-> mine[i].role_name]

\* a variant that puts the new child first in the role's list
AddChild_Prepend(children, assignment) ==
    IF assignment.assignee_type = "ROLE"
    THEN Put(children, assignment.role_name,
             <<assignment.assignee_name>> \o Get(children, assignment.role_name, <<>>))
    ELSE children

\* objects.py:746-750, one iteration of the loop
AddChild(children, assignment) ==
    IF assignment.assignee_type = "ROLE"
    THEN Put(children, assignment.role_name,
             Append(Get(children, assignment.role_name, <<>>), assignment.assignee_name))
    ELSE children

\* objects.py:745-750
RECURSIVE BuildRoleChildren(_, _)
BuildRoleChildren(assignments, children) ==
    IF assignments = <<>> THEN children
    ELSE BuildRoleChildren(Tail(assignments), AddChild(children, Head(assignments)))

\* objects.py:776, role_children.get(role_name, [])
ChildrenOf(role_name) == Get(role_children, role_name, <<>>)

\* objects.py:759
AlreadyVisited(role_name) == role_name \in visited_roles

\* objects.py:768-773 (is_system is copied from the roles table and is left out)
RoleWithPath(role_name, path_str, path) ==
    [name |-> role_name, granted_via |-> path_str, is_inherited |-> Len(path) > 0]

\* a variant that records the role before it tests the visited set
TraverseRolesEnter_EmitBeforeGuard(role_name, path, callers) ==
    LET current_path == path \o <<role_name>>
        path_str == JoinPath(current_path)
    IN  /\ roles_with_paths' =
               Append(roles_with_paths, RoleWithPath(role_name, path_str, path))
        /\ IF AlreadyVisited(role_name)
           THEN /\ stack' = callers
                /\ UNCHANGED <<visited_roles, role_to_path>>
           ELSE /\ visited_roles' = visited_roles \cup {role_name}
                /\ role_to_path' = Put(role_to_path, role_name, path_str)
                /\ stack' = Append(callers, [role_name |-> role_name,
                                             current_path |-> current_path,
                                             child_idx |-> 1])

\* objects.py:758-773: entry of traverse_roles(role_name, path); callers is the
\* stack of the activations that wait for this call
TraverseRolesEnter(role_name, path, callers) ==
    IF AlreadyVisited(role_name)
    THEN /\ stack' = callers
         /\ UNCHANGED <<visited_roles, role_to_path, roles_with_paths>>
    ELSE LET current_path == path \o <<role_name>>
             path_str == JoinPath(current_path)
         IN  /\ visited_roles' = visited_roles \cup {role_name}
             /\ role_to_path' = Put(role_to_path, role_name, path_str)
             /\ roles_with_paths' =
                    Append(roles_with_paths, RoleWithPath(role_name, path_str, path))
             /\ stack' = Append(callers, [role_name |-> role_name,
                                          current_path |-> current_path,
                                          child_idx |-> 1])

Top == stack[Len(stack)]
Callers == SubSeq(stack, 1, Len(stack) - 1)

(***************************************************************************)
(* get_user_access: grant aggregation                                      *)
(***************************************************************************)
\* objects.py:822-824
AccountLevelTypes ==
    {"WAREHOUSE", "ROLE", "USER", "INTEGRATION", "NOTIFICATION_INTEGRATION",
     "SECURITY_INTEGRATION", "STORAGE_INTEGRATION", "RESOURCE_MONITOR",
     "ACCOUNT", "NETWORK_POLICY", "SHARE"}

\* objects.py:787-796
SelectGrants(stored, all_user_roles) ==
    IF all_user_roles # {}
    THEN SelectSeq(stored, LAMBDA g : g.grantee_name \in all_user_roles
                                      /\ g.grantee_type = "ROLE")
    ELSE <<>>

PrivilegeGrant(p, via) == [privilege |-> p, granted_via |-> via]
TableAccess(n, p, via) == [name |-> n, privilege |-> p, granted_via |-> via]
NewSchema == [privileges |-> <<>>, tables |-> <<>>, views |-> <<>>]
NewDatabase == [privileges |-> <<>>, schemas |-> EmptyDict]

\* db_data[db]["privileges"].append(entry); a missing key raises KeyError
AppendDbPrivilege(db_data, db, entry) ==
    IF db \notin DOMAIN db_data
    THEN [error |-> TRUE, db_data |-> db_data]
    ELSE [error |-> FALSE,
          db_data |-> [db_data EXCEPT ![db].privileges = Append(@, entry)]]

\* objects.py:832-835, 841-844, 851-854, then the append to the schema's list
AppendSchemaEntry(db_data, db, schema, field, entry) ==
    LET schemas == db_data[db].schemas
        present == IF schema \in DOMAIN schemas THEN schemas
                   ELSE Put(schemas, schema, NewSchema)
        updated == [present EXCEPT ![schema][field] = Append(@, entry)]
    IN  [error |-> FALSE, db_data |-> [db_data EXCEPT ![db].schemas = updated]]

\* objects.py:804-868, one iteration of the loop
AddGrant(db_data0, grant, paths) ==
    LET db_name == IF grant.object_database # "" THEN grant.object_database ELSE "ACCOUNT"
        schema_name == grant.object_schema
        obj_type == IF grant.object_type # "" THEN Upper(grant.object_type) ELSE ""
        obj_name == grant.object_name
        privilege == grant.privilege
        granted_via == Get(paths, grant.grantee_name, grant.grantee_name)
        db_data == IF db_name \in DOMAIN db_data0 THEN db_data0
                   ELSE Put(db_data0, db_name, NewDatabase)
    IN  IF obj_type = "DATABASE"
        THEN AppendDbPrivilege(db_data, db_name, PrivilegeGrant(privilege, granted_via))
        ELSE IF obj_type \in AccountLevelTypes
        THEN AppendDbPrivilege(db_data, "ACCOUNT",
                 PrivilegeGrant(IF obj_name # ""
                                THEN privilege \o " on " \o obj_type \o " " \o obj_name
                                ELSE privilege \o " on " \o obj_type,
                                granted_via))
        ELSE IF obj_type = "SCHEMA" /\ schema_name # ""
        THEN AppendSchemaEntry(db_data, db_name, schema_name, "privileges",
                 PrivilegeGrant(privilege, granted_via))
        ELSE IF obj_type \in {"TABLE", "VIEW"} /\ schema_name # "" /\ obj_name # ""
        THEN AppendSchemaEntry(db_data, db_name, schema_name,
                 IF obj_type = "TABLE" THEN "tables" ELSE "views",
                 TableAccess(obj_name, privilege, granted_via))
        ELSE IF schema_name # ""
        THEN AppendSchemaEntry(db_data, db_name, schema_name, "tables",
                 TableAccess((IF obj_name # "" THEN obj_name ELSE "ALL")
                                 \o " (" \o obj_type \o ")",
                             privilege, granted_via))
        ELSE IF schema_name = "" /\ obj_name # ""
        THEN AppendDbPrivilege(db_data, "ACCOUNT",
                 PrivilegeGrant(IF obj_type # ""
                                THEN privilege \o " on " \o obj_type \o " " \o obj_name
                                ELSE privilege \o " on " \o obj_name,
                                granted_via))
        ELSE [error |-> FALSE, db_data |-> db_data]

\* objects.py:800-868
RECURSIVE OrganizeGrants(_, _, _)
OrganizeGrants(grant_list, db_data, paths) ==
    IF grant_list = <<>> THEN [error |-> FALSE, db_data |-> db_data]
    ELSE LET r == AddGrant(db_data, Head(grant_list), paths)
         IN  IF r.error THEN r ELSE OrganizeGrants(Tail(grant_list), r.db_data, paths)

RECURSIVE SumLen(_, _, _)
SumLen(d, keys, field) ==
    IF keys = {} THEN 0
    ELSE LET k == CHOOSE x \in keys : TRUE
         IN  Len(d[k][field]) + SumLen(d, keys \ {k}, field)

RECURSIVE SumOver(_, _)
SumOver(f, keys) ==
    IF keys = {} THEN 0
    ELSE LET k == CHOOSE x \in keys : TRUE IN f[k] + SumOver(f, keys \ {k})

\* objects.py:878-885
SchemaAccess(schemas) ==
    [n \in DOMAIN schemas |->
        [name |-> n, privileges |-> schemas[n].privileges,
         tables |-> schemas[n].tables, views |-> schemas[n].views]]

\* a variant whose table counter also counts the views
UserAccessResponse_TablesWithViews(db_data, roles) ==
    LET names == Sorted(DOMAIN db_data)
        databases == [i \in 1..Len(names) |->
                        [name |-> names[i],
                         privileges |-> db_data[names[i]].privileges,
                         schemas |-> SchemaAccess(db_data[names[i]].schemas)]]
        per_db(field) == [n \in DOMAIN db_data |->
                            SumLen(db_data[n].schemas, DOMAIN db_data[n].schemas, field)]
        schema_counts == [n \in DOMAIN db_data |-> Cardinality(DOMAIN db_data[n].schemas)]
    IN  [status |-> 200,
         roles |-> roles,
         role_count |-> Len(roles),
         databases |-> databases,
         summary |-> [total_databases |-> Len(databases),
                      total_schemas |-> SumOver(schema_counts, DOMAIN db_data),
                      total_tables |-> SumOver(per_db("tables"), DOMAIN db_data)
                                       + SumOver(per_db("views"), DOMAIN db_data),
                      total_views |-> SumOver(per_db("views"), DOMAIN db_data)]]

\* objects.py:870-910
UserAccessResponse(db_data, roles) ==
    LET names == Sorted(DOMAIN db_data)
        databases == [i \in 1..Len(names) |->
                        [name |-> names[i],
                         privileges |-> db_data[names[i]].privileges,
                         schemas |-> SchemaAccess(db_data[names[i]].schemas)]]
        per_db(field) == [n \in DOMAIN db_data |->
                            SumLen(db_data[n].schemas, DOMAIN db_data[n].schemas, field)]
        schema_counts == [n \in DOMAIN db_data |-> Cardinality(DOMAIN db_data[n].schemas)]
    IN  [status |-> 200,
         roles |-> roles,
         role_count |-> Len(roles),
         databases |-> databases,
         summary |-> [total_databases |-> Len(databases),
                      total_schemas |-> SumOver(schema_counts, DOMAIN db_data),
                      total_tables |-> SumOver(per_db("tables"), DOMAIN db_data),
                      total_views |-> SumOver(per_db("views"), DOMAIN db_data)]]

NoAccess == [status |-> 0]

(***************************************************************************)
(* get_user_access: the request, step by step                              *)
(***************************************************************************)
NoDesign == [is_edit_mode |-> FALSE]
NoPreview == [status |-> 0]

\* no access request is being served
AccessIdle ==
    /\ all_assignments = <<>>
    /\ user_found = FALSE
    /\ user_direct_roles = <<>>
    /\ role_children = EmptyDict
    /\ roles_with_paths = <<>>
    /\ role_to_path = EmptyDict
    /\ visited_roles = {}
    /\ stack = <<>>
    /\ root_idx = 1
    /\ platform_grants = <<>>
    /\ grants = <<>>
    /\ access = NoAccess

\* no role design is being previewed
PreviewIdle ==
    /\ design = NoDesign
    /\ preview = NoPreview

\* no privilege is being rendered
RenderIdle ==
    /\ render_request = [role_name |-> ""]
    /\ rendered = [path \in {} |-> ""]

\* no changeset request is being served
ChangesetIdle ==
    /\ connection = [found |-> FALSE]
    /\ changeset = [changes |-> <<>>]
    /\ session = <<>>
    /\ store = <<>>
    /\ response = [status |-> 0]

\* no role has been classified
RoleTypeIdle ==
    /\ role_types = [r \in {} |-> ""]
    /\ role_details = [status |-> 0]

\* no sync is running
SyncIdle ==
    /\ sync_batch = <<>>
    /\ sync_runs = <<>>

\* no name is being parsed, no sync task runs, no changeset is stored and the
\* CLI is not running
OpsIdle ==
    /\ parse_input = [granted_on |-> ""]
    /\ parsed = <<>>
    /\ tasks = <<>>
    /\ changesets = <<>>
    /\ cli = [at |-> "off"]
    /\ platform_log = <<>>

RestIdle == RenderIdle /\ ChangesetIdle /\ RoleTypeIdle /\ SyncIdle /\ OpsIdle

InitAccess ==
    /\ pc = "start"
    /\ all_assignments \in SeqsUpTo(AssignmentUniverse, MaxAssignments)
    /\ user_found \in BOOLEAN
    /\ user_direct_roles = <<>>
    /\ role_children = EmptyDict
    /\ roles_with_paths = <<>>
    /\ role_to_path = EmptyDict
    /\ visited_roles = {}
    /\ stack = <<>>
    /\ root_idx = 1
    /\ platform_grants = <<>>
    /\ grants = <<>>
    /\ access = NoAccess
    /\ design = NoDesign
    /\ preview = NoPreview
    /\ RestIdle

\* objects.py:721-725
UserNotFound ==
    /\ pc = "start"
    /\ ~user_found
    /\ pc' = "not_found"
    /\ access' = [status |-> 404]
    /\ UNCHANGED <<all_assignments, user_found, user_direct_roles, role_children,
                   roles_with_paths, role_to_path, visited_roles, stack, root_idx,
                   platform_grants, grants, previewVars, restVars>>

\* objects.py:727-756
BuildRoleGraph ==
    /\ pc = "start"
    /\ user_found
    /\ user_direct_roles' = UserDirectRoles(all_assignments)
    /\ role_children' = BuildRoleChildren(all_assignments, EmptyDict)
    /\ roles_with_paths' = <<>>
    /\ role_to_path' = EmptyDict
    /\ visited_roles' = {}
    /\ pc' = "traverse"
    /\ UNCHANGED <<all_assignments, user_found, stack, root_idx, platform_grants,
                   grants, access, previewVars, restVars>>

\* objects.py:780-781: the next direct role starts a traversal
TraverseRoot ==
    /\ pc = "traverse"
    /\ stack = <<>>
    /\ root_idx <= Len(user_direct_roles)
    /\ root_idx' = root_idx + 1
    /\ TraverseRolesEnter(user_direct_roles[root_idx], <<>>, <<>>)
    /\ UNCHANGED <<pc, all_assignments, user_found, user_direct_roles, role_children,
                   platform_grants, grants, access, previewVars, restVars>>

\* objects.py:776-777: the running activation calls traverse_roles on its next child
TraverseChild ==
    /\ pc = "traverse"
    /\ stack # <<>>
    /\ Top.child_idx <= Len(ChildrenOf(Top.role_name))
    /\ TraverseRolesEnter(ChildrenOf(Top.role_name)[Top.child_idx], Top.current_path,
                          Append(Callers, [Top EXCEPT !.child_idx = @ + 1]))
    /\ UNCHANGED <<pc, all_assignments, user_found, user_direct_roles, role_children,
                   root_idx, platform_grants, grants, access, previewVars, restVars>>

\* objects.py:776: the loop over the children is exhausted, the activation returns
TraverseReturn ==
    /\ pc = "traverse"
    /\ stack # <<>>
    /\ Top.child_idx > Len(ChildrenOf(Top.role_name))
    /\ stack' = Callers
    /\ UNCHANGED <<pc, all_assignments, user_found, user_direct_roles, role_children,
                   roles_with_paths, role_to_path, visited_roles, root_idx,
                   platform_grants, grants, access, previewVars, restVars>>

\* objects.py:783-910: the grants of the reached roles are read and aggregated;
\* the platform_grants rows are one of stored_lists
AggregateFrom(stored_lists) ==
    /\ pc = "traverse"
    /\ stack = <<>>
    /\ root_idx > Len(user_direct_roles)
    /\ \E stored \in stored_lists :
          LET selected == SelectGrants(stored, DOMAIN role_to_path)
              organized == OrganizeGrants(selected, EmptyDict, role_to_path)
          IN  /\ platform_grants' = stored
              /\ grants' = selected
              /\ IF organized.error
                 THEN pc' = "failed" /\ access' = [status |-> 500]
                 ELSE /\ pc' = "done"
                      /\ access' = UserAccessResponse(organized.db_data, roles_with_paths)
    /\ UNCHANGED <<all_assignments, user_found, user_direct_roles, role_children,
                   roles_with_paths, role_to_path, visited_roles, stack, root_idx,
                   previewVars, restVars>>

AggregateAccess == AggregateFrom(SeqsUpTo(GrantUniverse, MaxGrants))

NextAccess ==
    \/ UserNotFound
    \/ BuildRoleGraph
    \/ TraverseRoot
    \/ TraverseChild
    \/ TraverseReturn
    \/ AggregateAccess

SpecAccess == InitAccess /\ [][NextAccess]_vars

\* the runtime runs the handler to its end
FairSpecAccess == SpecAccess /\ WF_vars(NextAccess)

(***************************************************************************)
(* Properties of the role traversal                                        *)
(***************************************************************************)
\* the ROLE -> ROLE edges and the direct roles, read off the stored rows
RoleEdges ==
    {<<a.role_name, a.assignee_name>> :
        a \in {b \in Range(all_assignments) : b.assignee_type = "ROLE"}}

DirectRoles ==
    {a.role_name : a \in {b \in Range(all_assignments) :
                            b.assignee_type = "USER" /\ b.assignee_name = user_name}}

Successors(S) == {e[2] : e \in {d \in RoleEdges : d[1] \in S}}

RECURSIVE Closure(_)
Closure(S) == IF Successors(S) \subseteq S THEN S ELSE Closure(S \cup Successors(S))

EmittedNames == {roles_with_paths[i].name : i \in 1..Len(roles_with_paths)}

NoRoleEmittedTwice ==
    \A i, j \in 1..Len(roles_with_paths) :
        roles_with_paths[i].name = roles_with_paths[j].name => i = j

TraversalOver == pc \in {"done", "failed"}

\* work left for the traversal: roots not yet started, two steps and one per
\* edge for every role not yet visited, one return and one step per unread
\* child for every activation
RECURSIVE PendingWork(_)
PendingWork(S) ==
    IF S = {} THEN 0
    ELSE LET r == CHOOSE x \in S : TRUE
         IN  2 + Len(ChildrenOf(r)) + PendingWork(S \ {r})

RECURSIVE FrameWork(_)
FrameWork(frames) ==
    IF frames = <<>> THEN 0
    ELSE 2 + Len(ChildrenOf(Head(frames).role_name)) - Head(frames).child_idx
         + FrameWork(Tail(frames))

TraversalVariant ==
    (Len(user_direct_roles) + 1 - root_idx)
    + PendingWork((RoleNames \cup DOMAIN role_children) \ visited_roles)
    + FrameWork(stack)

\* C1: on every assignment list, with cycles and self-loops, the traversal
\* terminates (every step strictly decreases a natural-valued measure, a step
\* is always possible until the traversal is over, and the request reaches an
\* end) and the roles list holds each role reachable from the direct roles
\* exactly once: no name twice, and at the end exactly the reachable names.
C1_CycleSafeTraversal ==
    /\ [](NoRoleEmittedTwice /\ TraversalVariant >= 0)
    /\ [](TraversalOver => EmittedNames = Closure(DirectRoles))
    /\ [](pc = "traverse" => ENABLED NextAccess)
    /\ [][pc = "traverse" /\ pc' = "traverse" => TraversalVariant' < TraversalVariant]_vars
    /\ <>(pc \in {"done", "failed", "not_found"})

\* a finished traversal that went through two roles granted to each other,
\* directly or through other roles
C1_Witness ==
    /\ pc = "done"
    /\ \E r, q \in EmittedNames :
          /\ r # q
          /\ q \in Closure(Successors({r}))
          /\ r \in Closure(Successors({q}))

\* a finished traversal that went through a role granted to itself
C1_WitnessSelfLoop ==
    /\ pc = "done"
    /\ \E r \in EmittedNames : <<r, r>> \in RoleEdges

\* C2: with assignments {X granted to ROLE A, A granted to USER alice} the
\* roles are [A via "A", X via "A → X"], and a TABLE grant held by X is one
\* table entry of alice's access with granted_via "A → X".
C2_InheritedRoleAccess ==
    \A X, A \in RoleNames :
        ( /\ pc \in {"done", "failed"}
          /\ X # A
          /\ Len(all_assignments) = 2
          /\ Range(all_assignments) =
                {Assignment(X, "ROLE", A), Assignment(A, "USER", user_name)} )
        => /\ pc = "done"
           /\ roles_with_paths =
                <<[name |-> A, granted_via |-> A, is_inherited |-> FALSE],
                  [name |-> X, granted_via |-> A \o " → " \o X, is_inherited |-> TRUE]>>
           /\ \A k \in 1..Len(platform_grants) :
                LET g == platform_grants[k]
                IN  (g.grantee_name = X /\ g.object_type = "TABLE") =>
                        \E d \in 1..Len(access.databases) :
                            /\ access.databases[d].name = g.object_database
                            /\ g.object_schema \in DOMAIN access.databases[d].schemas
                            /\ TableAccess(g.object_name, g.privilege, A \o " → " \o X)
                                 \in Range(access.databases[d].schemas[g.object_schema].tables)

(***************************************************************************)
(* Depth-first traversal as a function of the stored rows: the direct      *)
(* roles in row order, each role's children in row order, the first path   *)
(* found to a role kept.                                                   *)
(***************************************************************************)
ChildrenInRowOrder(role) ==
    LET rows == SelectSeq(all_assignments,
                    LAMBDA a : a.assignee_type = "ROLE" /\ a.role_name = role)
    IN  [i \in 1..Len(rows) |-> rows[i].assignee_name]

DirectRolesInRowOrder ==
    LET rows == SelectSeq(all_assignments,
                    LAMBDA a : a.assignee_type = "USER" /\ a.assignee_name = user_name)
    IN  [i \in 1..Len(rows) |-> rows[i].role_name]

RECURSIVE DfsVisit(_, _, _)
RECURSIVE DfsEach(_, _, _)
DfsVisit(role, path, found) ==
    IF \E i \in 1..Len(found) : found[i].name = role
    THEN found
    ELSE DfsEach(ChildrenInRowOrder(role), path \o <<role>>,
                 Append(found, [name |-> role,
                                granted_via |-> JoinPath(path \o <<role>>),
                                is_inherited |-> path # <<>>]))

DfsEach(roles, path, found) ==
    IF roles = <<>> THEN found
    ELSE DfsEach(Tail(roles), path, DfsVisit(Head(roles), path, found))

FirstPathDfs == DfsEach(DirectRolesInRowOrder, <<>>, <<>>)

\* C3: the (name, granted_via, is_inherited) sequence the traversal returns is
\* the depth-first one over the direct roles in their order and each role's
\* children in assignment order, the first path found to a role being kept and
\* a role already visited neither expanded nor emitted again; so it is a
\* function of the ordered assignment list alone.
C3_FirstPathWins ==
    TraversalOver =>
        /\ roles_with_paths = FirstPathDfs
        /\ \A i \in 1..Len(roles_with_paths) :
              role_to_path[roles_with_paths[i].name] = roles_with_paths[i].granted_via

\* a finished traversal in which some emitted role could be entered a second
\* way: as a direct role and as a child, or as a child of two emitted roles
RoleSources(r) ==
    (IF r \in DirectRoles THEN {"<direct>"} ELSE {})
    \cup {e[1] : e \in {d \in RoleEdges : d[2] = r /\ d[1] \in EmittedNames}}

C3_Witness ==
    /\ pc = "done"
    /\ \E r \in EmittedNames : Cardinality(RoleSources(r)) >= 2
    /\ \E i \in 1..Len(roles_with_paths) : roles_with_paths[i].is_inherited

(***************************************************************************)
(* preview_role_sql                                                        *)
(*                                                                         *)
(* Every statement the handler appends is kept together with the loop that *)
(* appended it and the list item it was appended for: an operation         *)
(* [action, category, item, sql], sql being the text of the f-string.      *)
(* The response's statements are the sql fields, in order.                 *)
(***************************************************************************)
DesignedRole == "R"
DesignRoleNames == {"A", "B", DesignedRole}
DesignUserNames == {"alice", "bob"}

PrivilegeSpec(p, t, n, imported) ==
    [privilege |-> p, object_type |-> t, object_name |-> n,
     is_imported_database |-> imported]

PrivilegeSpecUniverse ==
    {PrivilegeSpec("SELECT", "TABLE", "T", FALSE),
     PrivilegeSpec("SELECT", "TABLE", "T", TRUE),
     PrivilegeSpec("USAGE", "DATABASE", "DB", FALSE),
     PrivilegeSpec("USAGE", "DATABASE", "DB", TRUE),
     PrivilegeSpec("USAGE", "database", "DB", TRUE),
     PrivilegeSpec("IMPORTED PRIVILEGES", "DATABASE", "SNOWFLAKE", TRUE)}

Descriptions == {"", "etl"}

Map(seq, Op(_)) == [i \in 1..Len(seq) |-> Op(seq[i])]

\* the list item of a role or user list
Named(n) == [name |-> n]

Operation(action, category, item, sql) ==
    [action |-> action, category |-> category, item |-> item, sql |-> sql]

\* a variant whose key also carries the imported-database flag
priv_key_WithFlag(p) ==
    p.privilege \o "|" \o p.object_type \o "|" \o p.object_name
        \o "|" \o (IF p.is_imported_database THEN "True" ELSE "False")

\* objects.py:1368-1369
priv_key(p) == p.privilege \o "|" \o p.object_type \o "|" \o p.object_name

\* objects.py:1373-1374, the set comprehension over a privilege list
PrivKeySet(privs) == {priv_key(privs[i]) : i \in 1..Len(privs)}

\* objects.py:1398, 1411, 1477
IsImportedDatabase(priv) ==
    priv.is_imported_database /\ Upper(priv.object_type) = "DATABASE"

\* objects.py:1383-1387
InheritedRoleGrants(d) ==
    LET original_inherited_set == Range(d.original_inherited_roles)
    IN  Map(SelectSeq(d.inherit_from_roles,
                      LAMBDA parent_role : parent_role \notin original_inherited_set),
            LAMBDA parent_role :
                Operation("GRANT", "inherited", Named(parent_role),
                    "GRANT ROLE " \o parent_role \o " TO ROLE " \o d.role_name \o ";"))

\* objects.py:1389-1393
InheritedRoleRevokes(d) ==
    LET new_inherited_set == Range(d.inherit_from_roles)
    IN  Map(SelectSeq(d.original_inherited_roles,
                      LAMBDA parent_role : parent_role \notin new_inherited_set),
            LAMBDA parent_role :
                Operation("REVOKE", "inherited", Named(parent_role),
                    "REVOKE ROLE " \o parent_role \o " FROM ROLE " \o d.role_name \o ";"))

\* objects.py:1398-1405
EditGrantPrivilegeSql(priv, role_name) ==
    IF IsImportedDatabase(priv)
    THEN "GRANT IMPORTED PRIVILEGES ON DATABASE " \o priv.object_name
             \o " TO ROLE " \o role_name \o ";"
    ELSE "GRANT " \o priv.privilege \o " ON " \o priv.object_type \o " "
             \o priv.object_name \o " TO ROLE " \o role_name \o ";"

\* objects.py:1411-1418
EditRevokePrivilegeSql(priv, role_name) ==
    IF IsImportedDatabase(priv)
    THEN "REVOKE IMPORTED PRIVILEGES ON DATABASE " \o priv.object_name
             \o " FROM ROLE " \o role_name \o ";"
    ELSE "REVOKE " \o priv.privilege \o " ON " \o priv.object_type \o " "
             \o priv.object_name \o " FROM ROLE " \o role_name \o ";"

\* objects.py:1395-1406
PrivilegeGrants(d) ==
    LET original_priv_set == PrivKeySet(d.original_privileges)
    IN  Map(SelectSeq(d.privileges, LAMBDA priv : priv_key(priv) \notin original_priv_set),
            LAMBDA priv : Operation("GRANT", "privilege", priv,
                                    EditGrantPrivilegeSql(priv, d.role_name)))

\* objects.py:1408-1419
PrivilegeRevokes(d) ==
    LET new_priv_set == PrivKeySet(d.privileges)
    IN  Map(SelectSeq(d.original_privileges, LAMBDA priv : priv_key(priv) \notin new_priv_set),
            LAMBDA priv : Operation("REVOKE", "privilege", priv,
                                    EditRevokePrivilegeSql(priv, d.role_name)))

\* objects.py:1421-1425
UserAssignmentGrants(d) ==
    LET original_user_set == Range(d.original_assigned_users)
    IN  Map(SelectSeq(d.assign_to_users, LAMBDA user : user \notin original_user_set),
            LAMBDA user :
                Operation("GRANT", "user", Named(user),
                    "GRANT ROLE " \o d.role_name \o " TO USER " \o user \o ";"))

\* a variant that revokes every original user, kept or not
UserAssignmentRevokes_Unfiltered(d) ==
    Map(d.original_assigned_users,
        LAMBDA user :
            Operation("REVOKE", "user", Named(user),
                "REVOKE ROLE " \o d.role_name \o " FROM USER " \o user \o ";"))

\* objects.py:1427-1431
UserAssignmentRevokes(d) ==
    LET new_user_set == Range(d.assign_to_users)
    IN  Map(SelectSeq(d.original_assigned_users, LAMBDA user : user \notin new_user_set),
            LAMBDA user :
                Operation("REVOKE", "user", Named(user),
                    "REVOKE ROLE " \o d.role_name \o " FROM USER " \o user \o ";"))

\* objects.py:1433-1437
RoleAssignmentGrants(d) ==
    LET original_role_set == Range(d.original_assigned_roles)
    IN  Map(SelectSeq(d.assign_to_roles, LAMBDA role : role \notin original_role_set),
            LAMBDA role :
                Operation("GRANT", "role", Named(role),
                    "GRANT ROLE " \o d.role_name \o " TO ROLE " \o role \o ";"))

\* a variant that tests the original roles against the inherited-role set
RoleAssignmentRevokes_WrongSet(d) ==
    LET new_inherited_set == Range(d.inherit_from_roles)
    IN  Map(SelectSeq(d.original_assigned_roles, LAMBDA role : role \notin new_inherited_set),
            LAMBDA role :
                Operation("REVOKE", "role", Named(role),
                    "REVOKE ROLE " \o d.role_name \o " FROM ROLE " \o role \o ";"))

\* objects.py:1439-1443
RoleAssignmentRevokes(d) ==
    LET new_role_set == Range(d.assign_to_roles)
    IN  Map(SelectSeq(d.original_assigned_roles, LAMBDA role : role \notin new_role_set),
            LAMBDA role :
                Operation("REVOKE", "role", Named(role),
                    "REVOKE ROLE " \o d.role_name \o " FROM ROLE " \o role \o ";"))

\* a variant that runs every revoke loop before the grant loop of its category
EditOperations_RevokesFirst(d) ==
    InheritedRoleRevokes(d) \o InheritedRoleGrants(d)
    \o PrivilegeRevokes(d) \o PrivilegeGrants(d)
    \o UserAssignmentRevokes(d) \o UserAssignmentGrants(d)
    \o RoleAssignmentRevokes(d) \o RoleAssignmentGrants(d)

\* objects.py:1383-1443: the eight loops, in program order
EditOperations(d) ==
    InheritedRoleGrants(d) \o InheritedRoleRevokes(d)
    \o PrivilegeGrants(d) \o PrivilegeRevokes(d)
    \o UserAssignmentGrants(d) \o UserAssignmentRevokes(d)
    \o RoleAssignmentGrants(d) \o RoleAssignmentRevokes(d)

\* a variant without the placeholder for an empty diff
EditStatements_NoPlaceholder(d, operations) == Map(operations, LAMBDA op : op.sql)

\* objects.py:1445-1446
EditStatements(d, operations) ==
    IF operations = <<>>
    THEN <<"-- No changes to role " \o d.role_name>>
    ELSE Map(operations, LAMBDA op : op.sql)

\* objects.py:1448-1457
EditSummary(d, grants_count, revokes_count) ==
    LET parts == (IF grants_count > 0 THEN <<ToString(grants_count) \o " grant(s)">> ELSE <<>>)
                 \o (IF revokes_count > 0 THEN <<ToString(revokes_count) \o " revoke(s)">>
                     ELSE <<>>)
    IN  IF parts # <<>>
        THEN "Modifies role " \o d.role_name \o " with "
                 \o (IF Len(parts) = 2 THEN parts[1] \o " and " \o parts[2] ELSE parts[1])
        ELSE "No changes to role " \o d.role_name

\* objects.py:1364-1457
EditModeSql(d) ==
    LET operations == EditOperations(d)
        grants_count == Len(SelectSeq(operations, LAMBDA op : op.action = "GRANT"))
        revokes_count == Len(SelectSeq(operations, LAMBDA op : op.action = "REVOKE"))
    IN  [status |-> 200,
         operations |-> operations,
         statements |-> EditStatements(d, operations),
         summary |-> EditSummary(d, grants_count, revokes_count)]

\* objects.py:1463-1468
CreateRoleSql(d) ==
    LET comment == d.description
    IN  "CREATE ROLE IF NOT EXISTS " \o d.role_name
            \o (IF comment # "" THEN " COMMENT = '" \o comment \o "'" ELSE "") \o ";"

\* objects.py:1477-1484
CreateGrantPrivilegeSql(priv, role_name) ==
    IF IsImportedDatabase(priv)
    THEN "GRANT IMPORTED PRIVILEGES ON DATABASE " \o priv.object_name
             \o " TO ROLE " \o role_name \o ";"
    ELSE "GRANT " \o priv.privilege \o " ON " \o priv.object_type \o " "
             \o priv.object_name \o " TO ROLE " \o role_name \o ";"

\* a variant that leaves out what the original_* lists already hold
CreateOperations_SkipOriginal(d) ==
    <<Operation("CREATE", "role_definition", Named(d.role_name), CreateRoleSql(d))>>
    \o InheritedRoleGrants(d) \o PrivilegeGrants(d)
    \o UserAssignmentGrants(d) \o RoleAssignmentGrants(d)

\* objects.py:1462-1492
CreateOperations(d) ==
    <<Operation("CREATE", "role_definition", Named(d.role_name), CreateRoleSql(d))>>
    \o Map(d.inherit_from_roles, LAMBDA parent_role :
            Operation("GRANT", "inherited", Named(parent_role),
                "GRANT ROLE " \o parent_role \o " TO ROLE " \o d.role_name \o ";"))
    \o Map(d.privileges, LAMBDA priv :
            Operation("GRANT", "privilege", priv, CreateGrantPrivilegeSql(priv, d.role_name)))
    \o Map(d.assign_to_users, LAMBDA user :
            Operation("GRANT", "user", Named(user),
                "GRANT ROLE " \o d.role_name \o " TO USER " \o user \o ";"))
    \o Map(d.assign_to_roles, LAMBDA role :
            Operation("GRANT", "role", Named(role),
                "GRANT ROLE " \o d.role_name \o " TO ROLE " \o role \o ";"))

\* objects.py:1494-1500
CreateSummary(d) ==
    "Creates role " \o d.role_name
    \o (IF d.inherit_from_roles # <<>>
        THEN " inheriting from " \o ToString(Len(d.inherit_from_roles)) \o " role(s)" ELSE "")
    \o (IF d.privileges # <<>>
        THEN " with " \o ToString(Len(d.privileges)) \o " privilege(s)" ELSE "")
    \o (IF d.assign_to_users # <<>>
        THEN ", assigned to " \o ToString(Len(d.assign_to_users)) \o " user(s)" ELSE "")

\* objects.py:1459-1500
CreateModeSql(d) ==
    LET operations == CreateOperations(d)
    IN  [status |-> 200,
         operations |-> operations,
         statements |-> Map(operations, LAMBDA op : op.sql),
         summary |-> CreateSummary(d)]

\* objects.py:1353-1502
PreviewRoleSql(d) == IF d.is_edit_mode THEN EditModeSql(d) ELSE CreateModeSql(d)

(***************************************************************************)
(* preview_role_sql: the operator composes a design, then asks for the     *)
(* preview.  verify_connection_access is the caller's concern.             *)
(***************************************************************************)
EmptyDesign ==
    [role_name |-> DesignedRole,
     description |-> "",
     inherit_from_roles |-> <<>>,
     privileges |-> <<>>,
     assign_to_users |-> <<>>,
     assign_to_roles |-> <<>>,
     is_edit_mode |-> FALSE,
     original_inherited_roles |-> <<>>,
     original_privileges |-> <<>>,
     original_assigned_users |-> <<>>,
     original_assigned_roles |-> <<>>]

ListFields ==
    {"inherit_from_roles", "privileges", "assign_to_users", "assign_to_roles",
     "original_inherited_roles", "original_privileges", "original_assigned_users",
     "original_assigned_roles"}

ItemCount(d) ==
    Len(d.inherit_from_roles) + Len(d.privileges) + Len(d.assign_to_users)
    + Len(d.assign_to_roles) + Len(d.original_inherited_roles)
    + Len(d.original_privileges) + Len(d.original_assigned_users)
    + Len(d.original_assigned_roles)

InitPreview ==
    /\ pc = "design"
    /\ design = EmptyDesign
    /\ preview = NoPreview
    /\ all_assignments = <<>>
    /\ user_found = FALSE
    /\ user_direct_roles = <<>>
    /\ role_children = EmptyDict
    /\ roles_with_paths = <<>>
    /\ role_to_path = EmptyDict
    /\ visited_roles = {}
    /\ stack = <<>>
    /\ root_idx = 1
    /\ platform_grants = <<>>
    /\ grants = <<>>
    /\ access = NoAccess
    /\ RestIdle

AddToDesign(field, item) ==
    /\ pc = "design"
    /\ ItemCount(design) < MaxItems
    /\ design' = [design EXCEPT ![field] = Append(@, item)]
    /\ UNCHANGED <<pc, preview, accessVars, restVars>>

\* RoleDesignRequest, objects.py:977-990
AddInheritedRole ==
    \E r \in DesignRoleNames, f \in {"inherit_from_roles", "original_inherited_roles"} :
        AddToDesign(f, r)

AddPrivilege ==
    \E p \in PrivilegeSpecUniverse, f \in {"privileges", "original_privileges"} :
        AddToDesign(f, p)

AddAssignedUser ==
    \E u \in DesignUserNames, f \in {"assign_to_users", "original_assigned_users"} :
        AddToDesign(f, u)

AddAssignedRole ==
    \E r \in DesignRoleNames, f \in {"assign_to_roles", "original_assigned_roles"} :
        AddToDesign(f, r)

\* objects.py:1352-1502
RequestPreview ==
    /\ pc = "design"
    /\ \E mode \in BOOLEAN, description \in Descriptions :
          /\ design' = [design EXCEPT !.is_edit_mode = mode, !.description = description]
          /\ preview' = PreviewRoleSql(design')
    /\ pc' = "previewed"
    /\ UNCHANGED <<accessVars, restVars>>

NextPreview ==
    \/ AddInheritedRole
    \/ AddPrivilege
    \/ AddAssignedUser
    \/ AddAssignedRole
    \/ RequestPreview

SpecPreview == InitPreview /\ [][NextPreview]_vars

(***************************************************************************)
(* Properties of the role-design preview                                   *)
(***************************************************************************)
Previewed == pc = "previewed"
EditPreviewed == Previewed /\ design.is_edit_mode
CreatePreviewed == Previewed /\ ~design.is_edit_mode

Categories == {"inherited", "privilege", "user", "role"}

\* the desired and the original list of a category of a design
Desired(d, c) ==
    CASE c = "inherited" -> Map(d.inherit_from_roles, Named)
      [] c = "privilege" -> d.privileges
      [] c = "user" -> Map(d.assign_to_users, Named)
      [] c = "role" -> Map(d.assign_to_roles, Named)

Original(d, c) ==
    CASE c = "inherited" -> Map(d.original_inherited_roles, Named)
      [] c = "privilege" -> d.original_privileges
      [] c = "user" -> Map(d.original_assigned_users, Named)
      [] c = "role" -> Map(d.original_assigned_roles, Named)

\* the identity of a list item for the diff: the name, or for a privilege
\* the triple (privilege, object_type, object_name), whatever its flag
Identity(c, item) ==
    IF c = "privilege"
    THEN <<item.privilege, item.object_type, item.object_name>>
    ELSE <<item.name>>

Identities(c, items) == {Identity(c, items[i]) : i \in 1..Len(items)}

\* the items a list of operations grants, or revokes, in a category
ItemsOf(operations, action, c) ==
    LET ops == SelectSeq(operations, LAMBDA op : op.action = action /\ op.category = c)
    IN  [i \in 1..Len(ops) |-> ops[i].item]

\* the design with the desired and the original state exchanged
Swapped(d) ==
    [d EXCEPT !.inherit_from_roles = d.original_inherited_roles,
              !.original_inherited_roles = d.inherit_from_roles,
              !.privileges = d.original_privileges,
              !.original_privileges = d.privileges,
              !.assign_to_users = d.original_assigned_users,
              !.original_assigned_users = d.assign_to_users,
              !.assign_to_roles = d.original_assigned_roles,
              !.original_assigned_roles = d.assign_to_roles]

IsGrantOrRevoke(op) == op.action \in {"GRANT", "REVOKE"}

\* C4: an edit-mode preview whose original and desired lists are equal in all
\* four categories holds no GRANT and no REVOKE: its statement list is the one
\* placeholder "-- No changes to role {role_name}" and its summary is
\* "No changes to role {role_name}".
C4_IdempotentDiff ==
    ( /\ EditPreviewed
      /\ design.inherit_from_roles = design.original_inherited_roles
      /\ design.privileges = design.original_privileges
      /\ design.assign_to_users = design.original_assigned_users
      /\ design.assign_to_roles = design.original_assigned_roles )
    => /\ preview.statements = <<"-- No changes to role " \o design.role_name>>
       /\ preview.summary = "No changes to role " \o design.role_name
       /\ \A i \in 1..Len(preview.operations) : ~IsGrantOrRevoke(preview.operations[i])

\* an unchanged design with something in it
C4_Witness ==
    /\ EditPreviewed
    /\ design.inherit_from_roles = design.original_inherited_roles
    /\ design.privileges = design.original_privileges
    /\ design.assign_to_users = design.original_assigned_users
    /\ design.assign_to_roles = design.original_assigned_roles
    /\ design.privileges # <<>>

\* C5: in each category, the items the diff from the original to the desired
\* state grants are, as a set, the items the diff in the other direction
\* revokes.
C5_DiffSymmetry ==
    EditPreviewed =>
        \A c \in Categories :
            Range(ItemsOf(preview.operations, "GRANT", c))
                = Range(ItemsOf(PreviewRoleSql(Swapped(design)).operations, "REVOKE", c))

\* a diff that grants in one category and revokes in another
C5_Witness ==
    /\ EditPreviewed
    /\ \E c1, c2 \in Categories :
          /\ ItemsOf(preview.operations, "GRANT", c1) # <<>>
          /\ ItemsOf(preview.operations, "REVOKE", c2) # <<>>

\* the first occurrence of every identity of a list, in list order
RECURSIVE FirstOccurrences(_, _, _)
FirstOccurrences(c, items, seen) ==
    IF items = <<>> THEN <<>>
    ELSE IF Identity(c, Head(items)) \in seen
         THEN FirstOccurrences(c, Tail(items), seen)
         ELSE <<Head(items)>>
                  \o FirstOccurrences(c, Tail(items), seen \cup {Identity(c, Head(items))})

\* the items of a list whose identity is not in another list, once each
Difference(c, items, others) ==
    FirstOccurrences(c, SelectSeq(items, LAMBDA x : Identity(c, x) \notin Identities(c, others)),
                     {})

\* C6: in each category the diff emits exactly one GRANT per item of
\* desired \ original, in the order of the desired list, exactly one REVOKE
\* per item of original \ desired, in the order of the original list, and
\* nothing else; also when a list holds the same item more than once.
C6_ExactlyOnePerChangedItem ==
    EditPreviewed =>
        \A c \in Categories :
            /\ ItemsOf(preview.operations, "GRANT", c)
                  = Difference(c, Desired(design, c), Original(design, c))
            /\ ItemsOf(preview.operations, "REVOKE", c)
                  = Difference(c, Original(design, c), Desired(design, c))

\* the same without repeated items: one GRANT per occurrence of an item of
\* the desired list that is not in the original one, and conversely
C6_OnePerOccurrence ==
    EditPreviewed =>
        \A c \in Categories :
            /\ ItemsOf(preview.operations, "GRANT", c)
                  = SelectSeq(Desired(design, c),
                        LAMBDA x : Identity(c, x) \notin Identities(c, Original(design, c)))
            /\ ItemsOf(preview.operations, "REVOKE", c)
                  = SelectSeq(Original(design, c),
                        LAMBDA x : Identity(c, x) \notin Identities(c, Desired(design, c)))

\* the state of the role in a category after the operations, one by one
RECURSIVE ApplyOperations(_, _, _)
ApplyOperations(held, operations, c) ==
    IF operations = <<>> THEN held
    ELSE LET op == Head(operations)
         IN  ApplyOperations(
                 IF op.category # c THEN held
                 ELSE IF op.action = "GRANT" THEN held \cup {Identity(c, op.item)}
                 ELSE IF op.action = "REVOKE" THEN held \ {Identity(c, op.item)}
                 ELSE held,
                 Tail(operations), c)

\* C7: applied in the emitted order to a role that holds the original
\* inherited roles, users and role assignments, the edit-mode statements leave
\* it with exactly the desired ones; and in no category is an item both
\* granted and revoked by the same diff.
C7_DiffReachesDesired ==
    EditPreviewed =>
        /\ \A c \in {"inherited", "user", "role"} :
              ApplyOperations(Identities(c, Original(design, c)), preview.operations, c)
                  = Identities(c, Desired(design, c))
        /\ \A c \in Categories :
              Identities(c, ItemsOf(preview.operations, "GRANT", c))
                  \cap Identities(c, ItemsOf(preview.operations, "REVOKE", c)) = {}
        /\ Len(preview.statements) >= Len(preview.operations)
        /\ \A i \in 1..Len(preview.operations) :
              preview.statements[i] = preview.operations[i].sql

\* a diff that grants and revokes in the same category of names
C7_Witness ==
    /\ EditPreviewed
    /\ \E c \in {"inherited", "user", "role"} :
          /\ ItemsOf(preview.operations, "GRANT", c) # <<>>
          /\ ItemsOf(preview.operations, "REVOKE", c) # <<>>

\* the statement forms of the output vocabulary
SqlGrantRole(r, grantee_kind, grantee) ==
    "GRANT ROLE " \o r \o " TO " \o grantee_kind \o " " \o grantee \o ";"

SqlRevokeRole(r, grantee_kind, grantee) ==
    "REVOKE ROLE " \o r \o " FROM " \o grantee_kind \o " " \o grantee \o ";"

SqlPrivilege(verb, privilege, object_type, object_name, preposition, r) ==
    verb \o " " \o privilege \o " ON " \o object_type \o " " \o object_name
        \o " " \o preposition \o " ROLE " \o r \o ";"

\* the texts a statement of an operation's group may have
GroupTexts(op, r) ==
    CASE op.category = "inherited" /\ op.action = "GRANT" ->
            {SqlGrantRole(op.item.name, "ROLE", r)}
      [] op.category = "inherited" /\ op.action = "REVOKE" ->
            {SqlRevokeRole(op.item.name, "ROLE", r)}
      [] op.category = "privilege" /\ op.action = "GRANT" ->
            {SqlPrivilege("GRANT", op.item.privilege, op.item.object_type,
                          op.item.object_name, "TO", r),
             SqlPrivilege("GRANT", "IMPORTED PRIVILEGES", "DATABASE",
                          op.item.object_name, "TO", r)}
      [] op.category = "privilege" /\ op.action = "REVOKE" ->
            {SqlPrivilege("REVOKE", op.item.privilege, op.item.object_type,
                          op.item.object_name, "FROM", r),
             SqlPrivilege("REVOKE", "IMPORTED PRIVILEGES", "DATABASE",
                          op.item.object_name, "FROM", r)}
      [] op.category = "user" /\ op.action = "GRANT" ->
            {SqlGrantRole(r, "USER", op.item.name)}
      [] op.category = "user" /\ op.action = "REVOKE" ->
            {SqlRevokeRole(r, "USER", op.item.name)}
      [] op.category = "role" /\ op.action = "GRANT" ->
            {SqlGrantRole(r, "ROLE", op.item.name)}
      [] op.category = "role" /\ op.action = "REVOKE" ->
            {SqlRevokeRole(r, "ROLE", op.item.name)}
      [] OTHER -> {}

\* the place of an operation in the fixed emission order
GroupOf(op) ==
    (CASE op.category = "inherited" -> 1
       [] op.category = "privilege" -> 3
       [] op.category = "user" -> 5
       [] op.category = "role" -> 7
       [] OTHER -> 9)
    + (IF op.action = "REVOKE" THEN 1 ELSE 0)

\* C8: the edit-mode statements come in the order inherited-role grants,
\* inherited-role revokes, privilege grants, privilege revokes, user grants,
\* user revokes, role-assignment grants, role-assignment revokes: no statement
\* of a later group precedes one of an earlier group.
C8_CategoryOrder ==
    EditPreviewed =>
        /\ \A i, j \in 1..Len(preview.operations) :
              i < j => GroupOf(preview.operations[i]) <= GroupOf(preview.operations[j])
        /\ \A i \in 1..Len(preview.operations) :
              /\ preview.statements[i] = preview.operations[i].sql
              /\ preview.statements[i] \in GroupTexts(preview.operations[i], design.role_name)

\* a diff with statements of three groups, a revoke among the earlier ones
C8_Witness ==
    /\ EditPreviewed
    /\ Cardinality({GroupOf(preview.operations[i]) : i \in 1..Len(preview.operations)}) >= 3
    /\ \E i \in 1..Len(preview.operations) :
          preview.operations[i].action = "REVOKE" /\ i < Len(preview.operations)

\* a privilege spec with its imported-database flag inverted
Flipped(priv) == [priv EXCEPT !.is_imported_database = ~@]

SamePrivilege(p, q) == Identity("privilege", p) = Identity("privilege", q)

\* C9: a privilege with the same privilege, object type and object name in
\* original_privileges and in privileges gets no GRANT and no REVOKE, whatever
\* the is_imported_database flags of the two entries; inverting that flag in
\* either entry leaves the statement list as it is.
C9_FlagIgnoredByDiff ==
    EditPreviewed =>
        /\ \A k \in 1..Len(preview.operations) :
              preview.operations[k].category = "privilege" =>
                  ~ ( /\ \E i \in 1..Len(design.privileges) :
                            SamePrivilege(design.privileges[i], preview.operations[k].item)
                      /\ \E j \in 1..Len(design.original_privileges) :
                            SamePrivilege(design.original_privileges[j],
                                          preview.operations[k].item) )
        /\ \A i \in 1..Len(design.privileges) :
              (\E j \in 1..Len(design.original_privileges) :
                    SamePrivilege(design.privileges[i], design.original_privileges[j]))
              => PreviewRoleSql([design EXCEPT !.privileges[i] = Flipped(@)]).statements
                     = preview.statements
        /\ \A j \in 1..Len(design.original_privileges) :
              (\E i \in 1..Len(design.privileges) :
                    SamePrivilege(design.privileges[i], design.original_privileges[j]))
              => PreviewRoleSql([design EXCEPT !.original_privileges[j] = Flipped(@)]).statements
                     = preview.statements

\* a privilege that persists with its flag changed, beside a real change
C9_Witness ==
    /\ EditPreviewed
    /\ \E i \in 1..Len(design.privileges), j \in 1..Len(design.original_privileges) :
          /\ SamePrivilege(design.privileges[i], design.original_privileges[j])
          /\ design.privileges[i].is_imported_database
                 # design.original_privileges[j].is_imported_database
          /\ Upper(design.privileges[i].object_type) = "DATABASE"
    /\ preview.operations # <<>>

\* the design without its original_* lists
WithoutOriginals(d) ==
    [d EXCEPT !.original_inherited_roles = <<>>, !.original_privileges = <<>>,
              !.original_assigned_users = <<>>, !.original_assigned_roles = <<>>]

\* the create-mode statements as the output vocabulary spells them
ExpectedCreateStatements(d) ==
    <<"CREATE ROLE IF NOT EXISTS " \o d.role_name
          \o (IF d.description = "" THEN "" ELSE " COMMENT = '" \o d.description \o "'")
          \o ";">>
    \o Map(d.inherit_from_roles, LAMBDA x : SqlGrantRole(x, "ROLE", d.role_name))
    \o Map(d.privileges, LAMBDA x :
            IF x.is_imported_database /\ Upper(x.object_type) = "DATABASE"
            THEN SqlPrivilege("GRANT", "IMPORTED PRIVILEGES", "DATABASE", x.object_name,
                              "TO", d.role_name)
            ELSE SqlPrivilege("GRANT", x.privilege, x.object_type, x.object_name,
                              "TO", d.role_name))
    \o Map(d.assign_to_users, LAMBDA x : SqlGrantRole(d.role_name, "USER", x))
    \o Map(d.assign_to_roles, LAMBDA x : SqlGrantRole(d.role_name, "ROLE", x))

\* C10: a create-mode preview is one CREATE ROLE statement followed by one
\* GRANT per element of inherit_from_roles, then of privileges, then of
\* assign_to_users, then of assign_to_roles, each group in input order: 1 plus
\* the four lengths statements in all, no REVOKE, and the same statements
\* whatever the original_* lists hold.
C10_CreateModeGrantsAll ==
    CreatePreviewed =>
        /\ preview.statements = ExpectedCreateStatements(design)
        /\ Len(preview.statements)
              = 1 + Len(design.inherit_from_roles) + Len(design.privileges)
                  + Len(design.assign_to_users) + Len(design.assign_to_roles)
        /\ preview.operations[1].action = "CREATE"
        /\ \A i \in 2..Len(preview.operations) : preview.operations[i].action = "GRANT"
        /\ \A i \in 1..Len(preview.operations) :
              preview.statements[i] = preview.operations[i].sql
        /\ PreviewRoleSql(WithoutOriginals(design)).statements = preview.statements

\* a create-mode preview of a design that names an item in an original_* list
\* and in the matching desired list
C10_Witness ==
    /\ CreatePreviewed
    /\ Len(preview.statements) >= 3
    /\ \E c \in Categories :
          Identities(c, Original(design, c)) \cap Identities(c, Desired(design, c)) # {}

(***************************************************************************)
(* services/sql_generator.py                                               *)
(*                                                                         *)
(* A details dict is a function from its keys to their values.  A call     *)
(* either returns a statement or raises.  Where a value is formatted or    *)
(* has a method called on it, Python's None is the value None below: an    *)
(* f-string renders it as the four letters, a method call on it raises     *)
(* AttributeError, and it is falsy.  No input string is these four         *)
(* letters.                                                                *)
(***************************************************************************)
None == "None"

Returned(sql) == [raised |-> FALSE, sql |-> sql, error |-> ""]

Raised(error) == [raised |-> TRUE, sql |-> "", error |-> error]

\* truth value of a str | None
Truthy(v) == v \notin {"", None}

\* a variant that compares the object type without upper-casing it
SnowflakeGrantPrivilege_CaseSensitive(object_name, details) ==
    LET privilege == Get(details, "privilege", None)
        on_type == Get(details, "on_type", None)
        on_name == Get(details, "on_name", None)
        with_grant == Get(details, "with_grant_option", FALSE)
        is_imported == Get(details, "is_imported_database", FALSE)
    IN  IF is_imported /\ on_type = "DATABASE"
        THEN Returned("GRANT IMPORTED PRIVILEGES ON DATABASE " \o on_name
                          \o " TO ROLE " \o object_name \o ";")
        ELSE Returned("GRANT " \o privilege \o " ON " \o on_type \o " " \o on_name
                          \o " TO ROLE " \o object_name
                          \o (IF with_grant THEN " WITH GRANT OPTION" ELSE "") \o ";")

\* sql_generator.py:60-74
SnowflakeGrantPrivilege(object_name, details) ==
    LET privilege == Get(details, "privilege", None)
        on_type == Get(details, "on_type", None)
        on_name == Get(details, "on_name", None)
        with_grant == Get(details, "with_grant_option", FALSE)
        is_imported == Get(details, "is_imported_database", FALSE)
    IN  IF is_imported /\ on_type = None
        THEN Raised("AttributeError")
        ELSE IF is_imported /\ Upper(on_type) = "DATABASE"
        THEN Returned("GRANT IMPORTED PRIVILEGES ON DATABASE " \o on_name
                          \o " TO ROLE " \o object_name \o ";")
        ELSE Returned("GRANT " \o privilege \o " ON " \o on_type \o " " \o on_name
                          \o " TO ROLE " \o object_name
                          \o (IF with_grant THEN " WITH GRANT OPTION" ELSE "") \o ";")

\* sql_generator.py:38-46: verb is GRANT or REVOKE, preposition TO or FROM
SnowflakeRoleGrant(verb, preposition, object_name, details) ==
    LET grantee == Get(details, "grantee", None)
        grantee_type == Get(details, "grantee_type", "USER")
    IN  IF grantee_type = None
        THEN Raised("AttributeError")
        ELSE Returned(verb \o " ROLE " \o object_name \o " " \o preposition \o " "
                          \o Upper(grantee_type) \o " " \o grantee \o ";")

\* sql_generator.py:95-110: an optional clause of CREATE USER
UserClause(details, key, label) ==
    LET value == Get(details, key, "")
    IN  IF Truthy(value) THEN " " \o label \o " = '" \o value \o "'" ELSE ""

\* sql_generator.py:82-111
SnowflakeCreateUser(object_name, details) ==
    LET login_name == Get(details, "login_name", object_name)
        password == Get(details, "password", "")
        must_change_password == Get(details, "must_change_password", TRUE)
    IN  Returned("CREATE USER IF NOT EXISTS " \o object_name
                 \o " LOGIN_NAME = '" \o login_name \o "'"
                 \o (IF Truthy(password)
                     THEN " PASSWORD = '" \o password \o "'"
                          \o (IF must_change_password
                              THEN " MUST_CHANGE_PASSWORD = TRUE" ELSE "")
                     ELSE "")
                 \o UserClause(details, "email", "EMAIL")
                 \o UserClause(details, "first_name", "FIRST_NAME")
                 \o UserClause(details, "last_name", "LAST_NAME")
                 \o UserClause(details, "display_name", "DISPLAY_NAME")
                 \o UserClause(details, "comment", "COMMENT")
                 \o UserClause(details, "default_namespace", "DEFAULT_NAMESPACE")
                 \o ";")

\* sql_generator.py:116-126
SnowflakeAlterUser(object_name, details) ==
    LET alterations ==
            (IF "disabled" \in DOMAIN details
             THEN <<IF details["disabled"] THEN "DISABLED = TRUE" ELSE "DISABLED = FALSE">>
             ELSE <<>>)
            \o (IF "default_role" \in DOMAIN details
                THEN <<"DEFAULT_ROLE = " \o details["default_role"]>>
                ELSE <<>>)
    IN  IF alterations # <<>>
        THEN Returned("ALTER USER " \o object_name \o " SET " \o alterations[1]
                          \o (IF Len(alterations) > 1 THEN " " \o alterations[2] ELSE "")
                          \o ";")
        ELSE Returned("-- No changes for user " \o object_name)

\* sql_generator.py:20-129
generate_snowflake_sql(change_type, object_type, object_name, details) ==
    CASE change_type = "create_role" ->
            LET comment == Get(details, "comment", "")
            IN  Returned("CREATE ROLE IF NOT EXISTS " \o object_name
                    \o (IF Truthy(comment) THEN " COMMENT = '" \o comment \o "'" ELSE "")
                    \o ";")
      [] change_type = "drop_role" ->
            Returned("DROP ROLE IF EXISTS " \o object_name \o ";")
      [] change_type = "grant_role" ->
            SnowflakeRoleGrant("GRANT", "TO", object_name, details)
      [] change_type = "revoke_role" ->
            SnowflakeRoleGrant("REVOKE", "FROM", object_name, details)
      [] change_type = "grant" /\ object_type = "role_assignment" ->
            Returned("GRANT ROLE " \o Get(details, "role_name", None)
                         \o " TO USER " \o Get(details, "user_name", None) \o ";")
      [] change_type = "revoke" /\ object_type = "role_assignment" ->
            Returned("REVOKE ROLE " \o Get(details, "role_name", None)
                         \o " FROM USER " \o Get(details, "user_name", None) \o ";")
      [] change_type = "grant_privilege" ->
            SnowflakeGrantPrivilege(object_name, details)
      [] change_type = "revoke_privilege" ->
            Returned("REVOKE " \o Get(details, "privilege", None)
                         \o " ON " \o Get(details, "on_type", None)
                         \o " " \o Get(details, "on_name", None)
                         \o " FROM ROLE " \o object_name \o ";")
      [] change_type = "create_user" ->
            SnowflakeCreateUser(object_name, details)
      [] change_type = "drop_user" ->
            Returned("DROP USER IF EXISTS " \o object_name \o ";")
      [] change_type = "alter_user" ->
            SnowflakeAlterUser(object_name, details)
      [] OTHER ->
            Returned("-- Unsupported change type: " \o change_type)

\* the grave accent that quotes a Databricks principal (sql_generator.py:147, 153);
\* a TLA+ string cannot hold that character, the acute accent stands for it
Backtick == "´"

\* sql_generator.py:132-156
generate_databricks_sql(change_type, object_type, object_name, details) ==
    CASE change_type = "create_group" ->
            Returned("-- CREATE GROUP not available via SQL in Databricks (use SCIM API)")
      [] change_type = "grant_privilege" ->
            Returned("GRANT " \o Get(details, "privilege", None)
                         \o " ON " \o Get(details, "on_type", None)
                         \o " " \o Get(details, "on_name", None)
                         \o " TO " \o Backtick \o object_name \o Backtick \o ";")
      [] change_type = "revoke_privilege" ->
            Returned("REVOKE " \o Get(details, "privilege", None)
                         \o " ON " \o Get(details, "on_type", None)
                         \o " " \o Get(details, "on_name", None)
                         \o " FROM " \o Backtick \o object_name \o Backtick \o ";")
      [] OTHER ->
            Returned("-- Unsupported change type for Databricks: " \o change_type)

\* a variant that falls back to a comment for a platform it does not know
generate_sql_for_change_CommentFallback(platform, change_type, object_type, object_name, details) ==
    IF platform = "snowflake"
    THEN generate_snowflake_sql(change_type, object_type, object_name, details)
    ELSE IF platform = "databricks"
    THEN generate_databricks_sql(change_type, object_type, object_name, details)
    ELSE Returned("-- Unsupported platform: " \o platform)

\* sql_generator.py:4-17
generate_sql_for_change(platform, change_type, object_type, object_name, details) ==
    IF platform = "snowflake"
    THEN generate_snowflake_sql(change_type, object_type, object_name, details)
    ELSE IF platform = "databricks"
    THEN generate_databricks_sql(change_type, object_type, object_name, details)
    ELSE Raised("ValueError: Unsupported platform: " \o platform)

(***************************************************************************)
(* One privilege grant on the three paths that render it                   *)
(***************************************************************************)
RenderRequest(role_name, priv, with_grant_option) ==
    [role_name |-> role_name, priv |-> priv, with_grant_option |-> with_grant_option]

\* the design that holds the privilege as its only item
RenderDesign(req, mode) ==
    [EmptyDesign EXCEPT !.role_name = req.role_name,
                        !.privileges = <<req.priv>>,
                        !.is_edit_mode = mode]

\* the details of the grant_privilege change for the privilege
RenderDetails(req) ==
    [privilege |-> req.priv.privilege,
     on_type |-> req.priv.object_type,
     on_name |-> req.priv.object_name,
     is_imported_database |-> req.priv.is_imported_database,
     with_grant_option |-> req.with_grant_option]

\* the statement of the privilege operation in a preview
PrivilegeStatement(sql_preview) ==
    SelectSeq(sql_preview.operations, LAMBDA op : op.category = "privilege")[1].sql

InitRender ==
    /\ pc = "render"
    /\ render_request \in {RenderRequest(r, p, w) :
                              r \in DesignRoleNames, p \in PrivilegeSpecUniverse,
                              w \in BOOLEAN}
    /\ rendered = [path \in {} |-> Returned("")]
    /\ AccessIdle
    /\ PreviewIdle
    /\ ChangesetIdle
    /\ RoleTypeIdle
    /\ SyncIdle
    /\ OpsIdle

Render(path, result) ==
    /\ pc = "render"
    /\ path \notin DOMAIN rendered
    /\ rendered' = Put(rendered, path, result)
    /\ UNCHANGED <<pc, render_request, accessVars, previewVars, changesetVars,
                   roleTypeVars, syncVars, opsVars>>

\* objects.py:1459-1500 with the privilege as the design's only item
RenderCreatePreview ==
    Render("create",
           Returned(PrivilegeStatement(PreviewRoleSql(RenderDesign(render_request, FALSE)))))

\* objects.py:1352-1457 with the privilege as the design's only item
RenderEditPreview ==
    Render("edit",
           Returned(PrivilegeStatement(PreviewRoleSql(RenderDesign(render_request, TRUE)))))

\* sql_generator.py:4-17, 60-74
RenderSnowflakeChange ==
    Render("change",
           generate_sql_for_change("snowflake", "grant_privilege", "role",
                                   render_request.role_name,
                                   RenderDetails(render_request)))

NextRender ==
    \/ RenderCreatePreview
    \/ RenderEditPreview
    \/ RenderSnowflakeChange

SpecRender == InitRender /\ [][NextRender]_vars

\* the two forms of a privilege grant
ImportedForm(req) ==
    "GRANT IMPORTED PRIVILEGES ON DATABASE " \o req.priv.object_name
        \o " TO ROLE " \o req.role_name \o ";"

GenericForm(req, path) ==
    "GRANT " \o req.priv.privilege \o " ON " \o req.priv.object_type \o " "
        \o req.priv.object_name \o " TO ROLE " \o req.role_name
        \o (IF path = "change" /\ req.with_grant_option THEN " WITH GRANT OPTION" ELSE "")
        \o ";"

\* the spellings of DATABASE the inputs are drawn from
DatabaseSpellings == {"DATABASE", "database", "Database"}

FlaggedDatabase(req) ==
    req.priv.is_imported_database /\ req.priv.object_type \in DatabaseSpellings

\* C11: on each of the three rendering paths (create-mode preview, edit-mode
\* preview, Snowflake branch of generate_sql_for_change) a privilege whose
\* is_imported_database flag is set and whose object type is DATABASE in any
\* letter case is rendered as GRANT IMPORTED PRIVILEGES ON DATABASE {name} TO
\* ROLE {role}; and not as the generic GRANT {privilege} ON ... text; every
\* other privilege is rendered in the generic form.
C11_ImportedPrivilegesForm ==
    \A path \in DOMAIN rendered :
        LET out == rendered[path]
        IN  /\ ~out.raised
            /\ IF FlaggedDatabase(render_request)
               THEN /\ out.sql = ImportedForm(render_request)
                    /\ render_request.priv.privilege # "IMPORTED PRIVILEGES"
                          => out.sql # GenericForm(render_request, path)
               ELSE out.sql = GenericForm(render_request, path)

\* a flagged privilege whose type is spelled in lower case went through all three paths
C11_Witness ==
    /\ pc = "render"
    /\ DOMAIN rendered = {"create", "edit", "change"}
    /\ render_request.priv.is_imported_database
    /\ render_request.priv.object_type = "database"
    /\ render_request.with_grant_option

(***************************************************************************)
(* Role classification: infer_role_type and its two callers                *)
(***************************************************************************)
\* a variant that tests the hybrid pattern before the functional one
infer_role_type_HybridFirst(has_data_grants, user_assignment_count, parent_role_count) ==
    LET is_functional_pattern == has_data_grants /\ user_assignment_count = 0
        is_business_pattern ==
            parent_role_count > 0 /\ user_assignment_count > 0 /\ ~has_data_grants
    IN  IF has_data_grants /\ (user_assignment_count > 0 \/ parent_role_count > 0)
        THEN [role_type |-> "hybrid",
              reason |-> "Mix of direct grants and role inheritance/user assignments"]
        ELSE IF is_functional_pattern /\ ~is_business_pattern
        THEN [role_type |-> "functional",
              reason |-> "Direct data grants, no user assignments"]
        ELSE IF is_business_pattern /\ ~is_functional_pattern
        THEN [role_type |-> "business",
              reason |-> "Inherits from " \o ToString(parent_role_count)
                         \o " role(s), assigned to " \o ToString(user_assignment_count)
                         \o " user(s)"]
        ELSE [role_type |-> "business", reason |-> "No direct data grants"]

\* objects.py:145-178
infer_role_type(has_data_grants, user_assignment_count, parent_role_count) ==
    LET is_functional_pattern == has_data_grants /\ user_assignment_count = 0
        is_business_pattern ==
            parent_role_count > 0 /\ user_assignment_count > 0 /\ ~has_data_grants
    IN  IF is_functional_pattern /\ ~is_business_pattern
        THEN [role_type |-> "functional",
              reason |-> "Direct data grants, no user assignments"]
        ELSE IF is_business_pattern /\ ~is_functional_pattern
        THEN [role_type |-> "business",
              reason |-> "Inherits from " \o ToString(parent_role_count)
                         \o " role(s), assigned to " \o ToString(user_assignment_count)
                         \o " user(s)"]
        ELSE IF has_data_grants /\ (user_assignment_count > 0 \/ parent_role_count > 0)
        THEN [role_type |-> "hybrid",
              reason |-> "Mix of direct grants and role inheritance/user assignments"]
        ELSE [role_type |-> "business", reason |-> "No direct data grants"]

\* a variant that tests the hybrid pattern before the functional one
service_infer_role_type_HybridFirst(has_data_grants, user_assignment_count, parent_role_count) ==
    LET is_functional_pattern == has_data_grants /\ user_assignment_count = 0
        is_business_pattern ==
            parent_role_count > 0 /\ user_assignment_count > 0 /\ ~has_data_grants
    IN  IF has_data_grants /\ (user_assignment_count > 0 \/ parent_role_count > 0)
        THEN "hybrid"
        ELSE IF is_functional_pattern /\ ~is_business_pattern THEN "functional"
        ELSE "business"

\* a variant without the closing default
service_infer_role_type_NoDefault(has_data_grants, user_assignment_count, parent_role_count) ==
    LET is_functional_pattern == has_data_grants /\ user_assignment_count = 0
        is_business_pattern ==
            parent_role_count > 0 /\ user_assignment_count > 0 /\ ~has_data_grants
    IN  IF is_functional_pattern /\ ~is_business_pattern THEN "functional"
        ELSE IF is_business_pattern /\ ~is_functional_pattern THEN "business"
        ELSE IF has_data_grants /\ (user_assignment_count > 0 \/ parent_role_count > 0)
        THEN "hybrid"
        ELSE ""

\* sync/service.py:56-79, _infer_role_type
service_infer_role_type(has_data_grants, user_assignment_count, parent_role_count) ==
    LET is_functional_pattern == has_data_grants /\ user_assignment_count = 0
        is_business_pattern ==
            parent_role_count > 0 /\ user_assignment_count > 0 /\ ~has_data_grants
    IN  IF is_functional_pattern /\ ~is_business_pattern THEN "functional"
        ELSE IF is_business_pattern /\ ~is_functional_pattern THEN "business"
        ELSE IF has_data_grants /\ (user_assignment_count > 0 \/ parent_role_count > 0)
        THEN "hybrid"
        ELSE "business"

\* sum(1 for row in rows if Test(row))
CountRows(rows, Test(_)) == Len(SelectSeq(rows, Test))

\* sync/service.py:109-119: user_assignments_per_role.get(role_name_upper, 0)
UserAssignmentsPerRole(assignments, role_name_upper) ==
    CountRows(assignments, LAMBDA a :
        Upper(a.assignee_type) = "USER" /\ Upper(a.role_name) = role_name_upper)

\* sync/service.py:109-119: parent_roles_per_role.get(role_name_upper, 0)
ParentRolesPerRole(assignments, role_name_upper) ==
    CountRows(assignments, LAMBDA a :
        Upper(a.assignee_type) # "USER" /\ Upper(a.assignee_type) = "ROLE"
        /\ Upper(a.assignee_name) = role_name_upper)

\* sync/service.py:122
data_grant_types == {"DATABASE", "SCHEMA", "TABLE", "VIEW"}

\* sync/service.py:95-100, 123-128
RolesWithDataGrants(stored) ==
    {Upper(stored[i].grantee_name) :
        i \in {j \in 1..Len(stored) : /\ stored[j].grantee_type = "ROLE"
                                      /\ Upper(stored[j].object_type) \in data_grant_types}}

\* sync/service.py:131-141: the label written to one role
CalculatedRoleType(name, assignments, stored) ==
    LET role_name_upper == Upper(name)
    IN  service_infer_role_type(role_name_upper \in RolesWithDataGrants(stored),
                                UserAssignmentsPerRole(assignments, role_name_upper),
                                ParentRolesPerRole(assignments, role_name_upper))

\* objects.py:394-402, parent_roles
ParentRoles(assignments, role_name) ==
    SelectSeq(assignments, LAMBDA a :
        Upper(a.assignee_type) = "ROLE" /\ Upper(a.assignee_name) = Upper(role_name))

\* objects.py:423-426
DetailUserAssignmentCount(assignments, role_name) ==
    CountRows(assignments, LAMBDA a :
        Upper(a.role_name) = Upper(role_name) /\ Upper(a.assignee_type) = "USER")

\* objects.py:429-435
DetailGrants(stored, role_name) ==
    SelectSeq(stored, LAMBDA g : g.grantee_name = role_name /\ g.grantee_type = "ROLE")

\* objects.py:443-454: the grants that reach the body of `if db_name`
DatabaseGrants(role_grants) ==
    SelectSeq(role_grants, LAMBDA g :
        Upper(g.object_type) # "WAREHOUSE" /\ g.object_database # "")

\* objects.py:355-515
RoleDetailResponse(role_name, assignments, stored) ==
    LET parent_roles == ParentRoles(assignments, role_name)
        user_assignment_count == DetailUserAssignmentCount(assignments, role_name)
        role_grants == DetailGrants(stored, role_name)
        unique_dbs == {g.object_database : g \in Range(DatabaseGrants(role_grants))}
        has_data_grants == DatabaseGrants(role_grants) # <<>>
        inferred == infer_role_type(has_data_grants, user_assignment_count,
                                    Len(parent_roles))
    IN  [status |-> 200,
         role_name |-> role_name,
         role_type |-> inferred.role_type,
         role_type_reason |-> inferred.reason,
         has_data_grants |-> has_data_grants,
         parent_role_count |-> Len(parent_roles),
         user_assignment_count |-> user_assignment_count,
         total_databases |-> Cardinality(unique_dbs),
         total_privileges |-> Len(role_grants)]

\* the platform_roles rows and the names a details request may carry
StoredRoles == {"R", "P"}
RequestedRoles == StoredRoles \cup {"X"}

RoleTypeAssignmentUniverse ==
    {Assignment("R", "USER", "alice"), Assignment("R", "USER", "bob"),
     Assignment("P", "ROLE", "R"), Assignment("Q", "role", "R"),
     Assignment("R", "ROLE", "P")}

\* rows as the two writers of platform_grants leave them: with the parsed
\* database and schema (connections.py:552-560) or without (sync/service.py:343)
RoleTypeGrantUniverse ==
    {Grant("USAGE", "DATABASE", "DB", "DB", "", "R"),
     Grant("USAGE", "DATABASE", "DB", "", "", "R"),
     Grant("SELECT", "TABLE", "T", "DB", "SCHEMA", "R"),
     Grant("USAGE", "FUNCTION", "F", "DB", "SCHEMA", "R"),
     Grant("USAGE", "WAREHOUSE", "WH", "", "", "R"),
     Grant("SELECT", "VIEW", "V", "DB", "SCHEMA", "P")}

InitRoleType ==
    /\ pc = "stored"
    /\ all_assignments \in SeqsUpTo(RoleTypeAssignmentUniverse, MaxAssignments)
    /\ platform_grants \in SeqsUpTo(RoleTypeGrantUniverse, MaxGrants)
    /\ user_found = FALSE
    /\ user_direct_roles = <<>>
    /\ role_children = EmptyDict
    /\ roles_with_paths = <<>>
    /\ role_to_path = EmptyDict
    /\ visited_roles = {}
    /\ stack = <<>>
    /\ root_idx = 1
    /\ grants = <<>>
    /\ access = NoAccess
    /\ PreviewIdle
    /\ RenderIdle
    /\ ChangesetIdle
    /\ RoleTypeIdle
    /\ SyncIdle
    /\ OpsIdle

\* sync/service.py:82-141, step 8 of run_sync
CalculateRoleTypes ==
    /\ pc = "stored"
    /\ DOMAIN role_types = {}
    /\ role_types' = [name \in StoredRoles |->
                         CalculatedRoleType(name, all_assignments, platform_grants)]
    /\ UNCHANGED <<pc, role_details, accessVars, previewVars, renderVars, changesetVars,
                   syncVars, opsVars>>

\* objects.py:355-515
GetRoleDetails ==
    /\ pc = "stored"
    /\ role_details.status = 0
    /\ \E role_name \in RequestedRoles :
          role_details' = IF role_name \notin StoredRoles
                          THEN [status |-> 404]
                          ELSE RoleDetailResponse(role_name, all_assignments,
                                                  platform_grants)
    /\ UNCHANGED <<pc, role_types, accessVars, previewVars, renderVars, changesetVars,
                   syncVars, opsVars>>

NextRoleType ==
    \/ CalculateRoleTypes
    \/ GetRoleDetails

SpecRoleType == InitRoleType /\ [][NextRoleType]_vars

(***************************************************************************)
(* Properties of the classification                                        *)
(***************************************************************************)
RoleTypeLabels == {"functional", "business", "hybrid"}

Detailed == pc = "stored" /\ role_details.status = 200

\* C12: whatever the values of has_data_grants, user_assignment_count > 0 and
\* parent_role_count > 0 are, the classifier returns one of the labels
\* functional, business, hybrid - with a non-empty reason where it returns a
\* reason - and the request or sync step that called it does not fail.
C12_ClassifierTotal ==
    pc = "stored" =>
        /\ role_details.status \in {0, 200, 404}
        /\ role_details.status = 200 =>
              /\ role_details.role_type \in RoleTypeLabels
              /\ role_details.role_type_reason # ""
        /\ \A name \in DOMAIN role_types : role_types[name] \in RoleTypeLabels

\* both callers classified a role that has data grants, users and parents
C12_Witness ==
    /\ Detailed
    /\ role_details.has_data_grants
    /\ role_details.user_assignment_count > 0
    /\ role_details.parent_role_count > 0
    /\ role_details.role_name \in DOMAIN role_types

\* the decimal numeral of a count
Numeral == <<"1", "2", "3", "4", "5", "6", "7", "8", "9">>

\* C13: the label and reason returned by infer_role_type follow the priority
\* rule: functional when has_data_grants and no user assignment; otherwise
\* business ("Inherits from n role(s), assigned to m user(s)") when there are
\* parents and users and no data grants; otherwise hybrid when has_data_grants
\* and (users or parents); otherwise business ("No direct data grants").  A
\* role with data grants, no user and no parent is functional.
C13_PriorityRule ==
    Detailed =>
        LET h == role_details.has_data_grants
            m == role_details.user_assignment_count
            n == role_details.parent_role_count
            label == role_details.role_type
            reason == role_details.role_type_reason
        IN  /\ label = "functional" <=> (h /\ m = 0)
            /\ label = "functional" => reason = "Direct data grants, no user assignments"
            /\ ~(h /\ m = 0) =>
                  IF n > 0 /\ m > 0 /\ ~h
                  THEN /\ label = "business"
                       /\ reason = "Inherits from " \o Numeral[n] \o " role(s), assigned to "
                                       \o Numeral[m] \o " user(s)"
                  ELSE IF h /\ (m > 0 \/ n > 0)
                  THEN /\ label = "hybrid"
                       /\ reason = "Mix of direct grants and role inheritance/user assignments"
                  ELSE /\ label = "business"
                       /\ reason = "No direct data grants"
            /\ (h /\ m = 0 /\ n = 0) => label = "functional"

\* a role with a data grant and a parent but no user: the functional rule is
\* tried before the hybrid one
C13_Witness ==
    /\ Detailed
    /\ role_details.has_data_grants
    /\ role_details.user_assignment_count = 0
    /\ role_details.parent_role_count > 0
    /\ role_details.role_type = "functional"

\* the stored grants of the role that the specification calls data grants
HoldsDataGrant(role_name) ==
    \E i \in 1..Len(platform_grants) :
        /\ platform_grants[i].grantee_name = role_name
        /\ platform_grants[i].grantee_type = "ROLE"
        /\ platform_grants[i].object_type \in {"DATABASE", "SCHEMA", "TABLE", "VIEW"}

\* C14: the has_data_grants value get_role_details passes to the classifier is
\* true exactly when the role holds a DATABASE, SCHEMA, TABLE or VIEW grant,
\* and the label it returns is the label the sync driver wrote for the same
\* stored assignments and grants.
C14_SameClassifierInputs ==
    Detailed =>
        /\ role_details.has_data_grants = HoldsDataGrant(role_details.role_name)
        /\ role_details.role_name \in DOMAIN role_types
              => role_types[role_details.role_name] = role_details.role_type

(***************************************************************************)
(* get_user_access over every shape of grant row                           *)
(***************************************************************************)
\* alice without a role, with one role, with a role that has a child
AggregateAssignmentLists ==
    {<<>>,
     <<Assignment("ANALYST", "USER", user_name)>>,
     <<Assignment("ANALYST", "USER", user_name),
       Assignment("ANALYST", "ROLE", "DATA_VIEWER")>>}

\* one row for each branch of objects.py:817-868, with and without a database
StoredGrantUniverse ==
    {Grant("USAGE", "DATABASE", "DB", "DB", "", "ANALYST"),
     Grant("USAGE", "WAREHOUSE", "WH", "", "", "ANALYST"),
     Grant("USAGE", "WAREHOUSE", "WH", "DB", "", "ANALYST"),
     Grant("USAGE", "SCHEMA", "SCHEMA", "DB", "SCHEMA", "DATA_VIEWER"),
     Grant("SELECT", "TABLE", "T", "DB", "SCHEMA", "ANALYST"),
     Grant("SELECT", "TABLE", "T", "DB2", "SCHEMA", "ANALYST"),
     Grant("SELECT", "VIEW", "V", "DB", "SCHEMA2", "ANALYST"),
     Grant("USAGE", "FUNCTION", "F", "DB", "SCHEMA", "ANALYST"),
     Grant("SELECT", "TABLE", "T", "DB", "", "ANALYST"),
     Grant("SELECT", "TABLE", "T", "", "", "ANALYST")}

InitAggregate ==
    /\ pc = "start"
    /\ all_assignments \in AggregateAssignmentLists
    /\ user_found \in BOOLEAN
    /\ user_direct_roles = <<>>
    /\ role_children = EmptyDict
    /\ roles_with_paths = <<>>
    /\ role_to_path = EmptyDict
    /\ visited_roles = {}
    /\ stack = <<>>
    /\ root_idx = 1
    /\ platform_grants = <<>>
    /\ grants = <<>>
    /\ access = NoAccess
    /\ PreviewIdle
    /\ RestIdle

AggregateStored == AggregateFrom(SeqsUpTo(StoredGrantUniverse, MaxStoredGrants))

NextAggregate ==
    \/ UserNotFound
    \/ BuildRoleGraph
    \/ TraverseRoot
    \/ TraverseChild
    \/ TraverseReturn
    \/ AggregateStored

SpecAggregate == InitAggregate /\ [][NextAggregate]_vars

\* the (database, schema) entries of the returned structure
SchemaEntries ==
    UNION {{<<i, n>> : n \in DOMAIN access.databases[i].schemas} :
              i \in 1..Len(access.databases)}

\* the entries of the tables or views lists of the returned structure
ListEntries(field) ==
    UNION {{<<e[1], e[2], k>> :
               k \in 1..Len(access.databases[e[1]].schemas[e[2]][field])} :
              e \in SchemaEntries}

\* C15: when get_user_access returns, total_databases is the number of
\* database entries returned, total_schemas the number of (database, schema)
\* entries, total_tables the number of entries in all tables lists and
\* total_views the number of entries in all views lists.
C15_SummaryCountsStructure ==
    pc = "done" =>
        /\ access.summary.total_databases = Len(access.databases)
        /\ access.summary.total_schemas = Cardinality(SchemaEntries)
        /\ access.summary.total_tables = Cardinality(ListEntries("tables"))
        /\ access.summary.total_views = Cardinality(ListEntries("views"))

\* a response with a table and a view in two schemas
C15_Witness ==
    /\ pc = "done"
    /\ access.summary.total_schemas = 2
    /\ access.summary.total_tables = 1
    /\ access.summary.total_views = 1

\* C16: the aggregation of get_user_access completes for every list of grant
\* rows: the request never fails while the grants are organised.
C16_AggregationCompletes == pc # "failed"

(***************************************************************************)
(* create_changeset (routers/changesets.py)                                *)
(***************************************************************************)
\* ChangeCreate, models/schemas.py:148-152
Change(change_type, object_type, object_name, details) ==
    [change_type |-> change_type, object_type |-> object_type,
     object_name |-> object_name, details |-> details]

NoDetails == [k \in {} |-> ""]

\* the operation vocabulary, further change types, and details that lack keys
ChangeUniverse ==
    {Change("create_role", "role", "R", [comment |-> "etl"]),
     Change("drop_role", "role", "R", NoDetails),
     Change("grant_role", "role", "R", [grantee |-> "alice"]),
     Change("grant_role", "role", "R", [grantee |-> "A", grantee_type |-> None]),
     Change("revoke_role", "role", "R", [grantee |-> "A", grantee_type |-> "role"]),
     Change("grant_privilege", "role", "R",
            [privilege |-> "SELECT", on_type |-> "TABLE", on_name |-> "T"]),
     Change("grant_privilege", "role", "R",
            [on_name |-> "DB", is_imported_database |-> TRUE]),
     Change("revoke_privilege", "role", "R",
            [privilege |-> "SELECT", on_type |-> "TABLE", on_name |-> "T"]),
     Change("create_user", "user", "carol", [email |-> "carol@x.io", password |-> "pw"]),
     Change("drop_user", "user", "carol", NoDetails),
     Change("alter_user", "user", "carol", [disabled |-> TRUE, default_role |-> "R"]),
     Change("alter_user", "user", "carol", NoDetails),
     Change("create_warehouse", "warehouse", "WH", NoDetails),
     Change("alter_warehouse", "warehouse", "WH", NoDetails),
     Change("create_group", "group", "G", NoDetails),
     Change("grant", "role_assignment", "R", [user_name |-> "alice", role_name |-> "R"]),
     Change("rename_role", "role", "R", NoDetails)}

\* Connection.platform, models/database.py:138
Platforms == {"snowflake", "databricks", "bigquery"}

\* changesets.py:64-73
ChangesetRow(request) ==
    [row |-> "changeset", changes_count |-> Len(request.changes),
     sql_statements_count |-> Len(request.changes)]

\* changesets.py:86-94
ChangeRow(change, sql, execution_order) ==
    [row |-> "change", change_type |-> change.change_type,
     object_type |-> change.object_type, object_name |-> change.object_name,
     details |-> change.details, sql_statement |-> sql,
     execution_order |-> execution_order]

outsideChangeset ==
    <<accessVars, previewVars, renderVars, roleTypeVars, syncVars, opsVars>>

InitChangeset ==
    /\ pc = "request"
    /\ connection \in {[found |-> FALSE, platform |-> ""]}
                         \cup {[found |-> TRUE, platform |-> p] : p \in Platforms}
    /\ changeset \in {[changes |-> c] : c \in SeqsUpTo(ChangeUniverse, MaxChanges)}
    /\ session = <<>>
    /\ store = <<>>
    /\ response = [status |-> 0]
    /\ AccessIdle
    /\ PreviewIdle
    /\ RenderIdle
    /\ RoleTypeIdle
    /\ SyncIdle
    /\ OpsIdle

\* changesets.py:50-61
ConnectionNotFound ==
    /\ pc = "request"
    /\ ~connection.found
    /\ pc' = "rejected"
    /\ response' = [status |-> 404]
    /\ UNCHANGED <<connection, changeset, session, store, outsideChangeset>>

\* changesets.py:63-74: the changeset row is added and flushed
BeginChangeset ==
    /\ pc = "request"
    /\ connection.found
    /\ session' = <<ChangesetRow(changeset)>>
    /\ pc' = "generating"
    /\ UNCHANGED <<connection, changeset, store, response, outsideChangeset>>

\* changesets.py:77-95: one turn of the loop; an exception leaves the handler,
\* and get_db closes the session, which discards what was not committed
\* (models/database.py:71-74)
GenerateChange ==
    /\ pc = "generating"
    /\ Len(session) <= Len(changeset.changes)
    /\ LET idx == Len(session) - 1
           change == changeset.changes[idx + 1]
           generated == generate_sql_for_change(connection.platform, change.change_type,
                                                change.object_type, change.object_name,
                                                change.details)
       IN  IF generated.raised
           THEN /\ session' = <<>>
                /\ response' = [status |-> 500]
                /\ pc' = "failed"
           ELSE /\ session' = Append(session, ChangeRow(change, generated.sql, idx + 1))
                /\ UNCHANGED <<response, pc>>
    /\ UNCHANGED <<connection, changeset, store, outsideChangeset>>

\* changesets.py:97-100
CommitChangeset ==
    /\ pc = "generating"
    /\ Len(session) > Len(changeset.changes)
    /\ store' = store \o session
    /\ session' = <<>>
    /\ response' = [status |-> 201]
    /\ pc' = "done"
    /\ UNCHANGED <<connection, changeset, outsideChangeset>>

NextChangeset ==
    \/ ConnectionNotFound
    \/ BeginChangeset
    \/ GenerateChange
    \/ CommitChangeset

SpecChangeset == InitChangeset /\ [][NextChangeset]_vars

(***************************************************************************)
(* Properties of statement generation for a changeset                      *)
(***************************************************************************)
SupportedPlatforms == {"snowflake", "databricks"}

OnSupportedPlatform == connection.found /\ connection.platform \in SupportedPlatforms

OnUnknownPlatform == connection.found /\ connection.platform \notin SupportedPlatforms

\* the Change rows in the session or in the store
ChangeRows(rows) == SelectSeq(rows, LAMBDA r : r.row = "change")

GeneratedRows == Range(ChangeRows(session)) \cup Range(ChangeRows(store))

\* the change types each platform has a case for
RenderedVocabulary(platform, change) ==
    IF platform = "snowflake"
    THEN \/ change.change_type \in
               {"create_role", "drop_role", "grant_role", "revoke_role", "grant_privilege",
                "revoke_privilege", "create_user", "drop_user", "alter_user"}
         \/ /\ change.change_type \in {"grant", "revoke"}
            /\ change.object_type = "role_assignment"
    ELSE change.change_type \in {"create_group", "grant_privilege", "revoke_privilege"}

\* C17: on a supported platform statement generation never raises, so the
\* request is never failed by it, and every change whose type the platform
\* has no rendering for gets the comment "-- Unsupported change type: "
\* followed by the change type.
C17_UnsupportedChangeTypeComment ==
    OnSupportedPlatform =>
        /\ pc # "failed"
        /\ \A r \in GeneratedRows :
              ~RenderedVocabulary(connection.platform, r)
                  => r.sql_statement = "-- Unsupported change type: " \o r.change_type

\* C18: with a platform identifier other than the supported ones statement
\* generation raises for whatever change it is called on and produces no SQL
\* text; the create_changeset request then fails, and neither the changeset
\* row nor any change row is committed.
C18_UnknownPlatformFailsFast ==
    (OnUnknownPlatform /\ changeset.changes # <<>>) =>
        /\ GeneratedRows = {}
        /\ store = <<>>
        /\ pc # "done"
        /\ response.status \in {0, 500}
        /\ pc = "failed" => (session = <<>> /\ response.status = 500)
        /\ \A i \in 1..Len(changeset.changes) :
              LET change == changeset.changes[i]
              IN  generate_sql_for_change(connection.platform, change.change_type,
                                          change.object_type, change.object_name,
                                          change.details).raised

\* a request with two changes failed on an unknown platform
C18_Witness ==
    /\ OnUnknownPlatform
    /\ pc = "failed"
    /\ Len(changeset.changes) = 2
    /\ changeset.changes[1].change_type = "create_role"

\* the common operation vocabulary
Vocabulary ==
    {"create_role", "drop_role", "grant_role", "revoke_role", "grant_privilege",
     "revoke_privilege", "create_user", "drop_user", "alter_user", "create_warehouse",
     "alter_warehouse"}

UnsupportedComments(change_type) ==
    {"-- Unsupported change type: " \o change_type,
     "-- Unsupported change type for Databricks: " \o change_type}

\* C19: on each supported platform every change whose type belongs to the
\* common vocabulary is rendered as a statement of that operation, not as the
\* unsupported-change-type comment.
C19_FullVocabulary ==
    OnSupportedPlatform =>
        \A r \in GeneratedRows :
            r.change_type \in Vocabulary
                => r.sql_statement \notin UnsupportedComments(r.change_type)

(***************************************************************************)
(* run_sync, step 4: _upsert_role_assignments (sync/service.py)            *)
(*                                                                         *)
(* all_assignments is the committed role_assignments table and session     *)
(* the rows added by db.add that no flush or commit has written yet.  The  *)
(* session is made with autoflush=False (models/database.py:51), so a      *)
(* SELECT does not see the rows of session.                                *)
(***************************************************************************)
\* RoleAssignment, models/database.py:203-216: the table has no unique constraint
AssignmentRow(role_name, assignee_type, assignee_name, assigned_by) ==
    [role_name |-> role_name, assignee_type |-> assignee_type,
     assignee_name |-> assignee_name, assigned_by |-> assigned_by]

\* what the connector may report: two edges, each granted by two grantors
ObservedAssignments ==
    {AssignmentRow("ANALYST", "USER", "alice", by) : by \in {"SECURITYADMIN", "SYSADMIN"}}
    \cup {AssignmentRow("ANALYST", "ROLE", "DATA_VIEWER", by) :
             by \in {"SECURITYADMIN", "SYSADMIN"}}

\* service.py:307-314, the rows the SELECT of the upsert returns
SameEdge(row, assignment) ==
    /\ row.role_name = assignment.role_name
    /\ row.assignee_type = assignment.assignee_type
    /\ row.assignee_name = assignment.assignee_name

InitSync ==
    /\ pc = "sync_idle"
    /\ all_assignments = <<>>
    /\ session = <<>>
    /\ sync_batch = <<>>
    /\ sync_runs = <<>>
    /\ user_found = FALSE
    /\ user_direct_roles = <<>>
    /\ role_children = EmptyDict
    /\ roles_with_paths = <<>>
    /\ role_to_path = EmptyDict
    /\ visited_roles = {}
    /\ stack = <<>>
    /\ root_idx = 1
    /\ platform_grants = <<>>
    /\ grants = <<>>
    /\ access = NoAccess
    /\ PreviewIdle
    /\ RenderIdle
    /\ connection = [found |-> FALSE]
    /\ changeset = [changes |-> <<>>]
    /\ store = <<>>
    /\ response = [status |-> 0]
    /\ RoleTypeIdle
    /\ OpsIdle

outsideSync ==
    <<user_found, user_direct_roles, role_children, roles_with_paths, role_to_path,
      visited_roles, stack, root_idx, platform_grants, grants, access, previewVars,
      renderVars, connection, changeset, store, response, roleTypeVars, opsVars>>

\* service.py:189-190: the connector returns the assignments of the platform
SyncRoleAssignments ==
    /\ pc = "sync_idle"
    /\ Len(sync_runs) < MaxSyncs
    /\ \E assignments \in SeqsUpTo(ObservedAssignments, MaxBatch) :
          sync_batch' = assignments
    /\ pc' = "upserting"
    /\ UNCHANGED <<all_assignments, session, sync_runs, outsideSync>>

\* service.py:304-331, one turn of the loop.  scalar_one_or_none raises when
\* more than one row matches; run_sync then marks the run failed and commits
\* what the session holds (service.py:224-238).
UpsertRoleAssignment ==
    /\ pc = "upserting"
    /\ sync_batch # <<>>
    /\ LET assignment == Head(sync_batch)
           existing == {i \in 1..Len(all_assignments) :
                           SameEdge(all_assignments[i], assignment)}
       IN  IF Cardinality(existing) > 1
           THEN /\ all_assignments' = all_assignments \o session
                /\ session' = <<>>
                /\ sync_batch' = <<>>
                /\ sync_runs' = Append(sync_runs, "failed")
                /\ pc' = "sync_idle"
           ELSE IF existing # {}
           THEN /\ all_assignments' =
                       [i \in 1..Len(all_assignments) |->
                           IF i \in existing
                           THEN [all_assignments[i] EXCEPT
                                    !.assigned_by = assignment.assigned_by]
                           ELSE all_assignments[i]]
                /\ sync_batch' = Tail(sync_batch)
                /\ UNCHANGED <<session, sync_runs, pc>>
           ELSE /\ session' = Append(session, assignment)
                /\ sync_batch' = Tail(sync_batch)
                /\ UNCHANGED <<all_assignments, sync_runs, pc>>
    /\ UNCHANGED outsideSync

\* service.py:191: db.commit() after the batch
CommitRoleAssignments ==
    /\ pc = "upserting"
    /\ sync_batch = <<>>
    /\ all_assignments' = all_assignments \o session
    /\ session' = <<>>
    /\ sync_runs' = Append(sync_runs, "completed")
    /\ pc' = "sync_idle"
    /\ UNCHANGED <<sync_batch, outsideSync>>

NextSync ==
    \/ SyncRoleAssignments
    \/ UpsertRoleAssignment
    \/ CommitRoleAssignments

SpecSync == InitSync /\ [][NextSync]_vars

\* C20: after any sequence of syncs the stored role assignments hold at most
\* one row per (role_name, assignee_type, assignee_name), also when a batch
\* reports the same edge twice.
C20_UniqueRoleAssignments ==
    \A i, j \in 1..Len(all_assignments) :
        SameEdge(all_assignments[i], all_assignments[j]) => i = j

(***************************************************************************)
(* The label as a function of two of the three classifier inputs           *)
(***************************************************************************)
LabelOf(has_data, has_users) ==
    IF has_data THEN (IF has_users THEN "hybrid" ELSE "functional") ELSE "business"

HasUserAssignment(role_name) ==
    \E i \in 1..Len(all_assignments) :
        /\ all_assignments[i].role_name = role_name
        /\ all_assignments[i].assignee_type = "USER"

HasParentRole(role_name) ==
    \E i \in 1..Len(all_assignments) :
        /\ all_assignments[i].assignee_name = role_name
        /\ all_assignments[i].assignee_type \in {"ROLE", "role"}

\* C27: the label does not depend on parent_role_count: whatever the number
\* of parents, both classifiers return the label fixed by has_data_grants and
\* user_assignment_count > 0, and hybrid exactly when both are true.
C27_LabelIgnoresParentCount ==
    pc = "stored" =>
        /\ role_details.status = 200 =>
              /\ role_details.role_type =
                     LabelOf(role_details.has_data_grants,
                             role_details.user_assignment_count > 0)
              /\ role_details.role_type = "hybrid" <=>
                     (role_details.has_data_grants
                      /\ role_details.user_assignment_count > 0)
        /\ \A name \in DOMAIN role_types :
              /\ role_types[name] = LabelOf(HoldsDataGrant(name), HasUserAssignment(name))
              /\ role_types[name] = "hybrid" <=>
                     (HoldsDataGrant(name) /\ HasUserAssignment(name))

\* a role with a data grant and a parent but no user was classified by both callers
C27_Witness ==
    /\ Detailed
    /\ role_details.role_name = "R"
    /\ role_details.has_data_grants
    /\ "R" \in DOMAIN role_types
    /\ HoldsDataGrant("R")
    /\ HasParentRole("R")
    /\ ~HasUserAssignment("R")

(***************************************************************************)
(* Direct roles in the roles list of get_user_access                       *)
(***************************************************************************)
\* C29: every role assigned directly to the user is returned in the roles
\* list with is_inherited = false and granted_via equal to its own name,
\* whatever the assignment graph is.
C29_DirectRolesNotInherited ==
    pc = "done" =>
        \A r \in DirectRoles :
            \E i \in 1..Len(access.roles) :
                /\ access.roles[i].name = r
                /\ ~access.roles[i].is_inherited
                /\ access.roles[i].granted_via = r

(***************************************************************************)
(* The grant and the revoke of one privilege, preview against generator    *)
(***************************************************************************)
\* the edit-mode design from which the privilege has been removed
RevokeDesign(req) ==
    [EmptyDesign EXCEPT !.role_name = req.role_name,
                        !.original_privileges = <<req.priv>>,
                        !.is_edit_mode = TRUE]

\* objects.py:1408-1419 with the privilege as the only original item
RenderEditRevoke ==
    Render("edit_revoke",
           Returned(PrivilegeStatement(PreviewRoleSql(RevokeDesign(render_request)))))

\* sql_generator.py:4-17, 76-80
RenderSnowflakeRevoke ==
    Render("change_revoke",
           generate_sql_for_change("snowflake", "revoke_privilege", "role",
                                   render_request.role_name,
                                   RenderDetails(render_request)))

NextRenderAll ==
    \/ RenderCreatePreview
    \/ RenderEditPreview
    \/ RenderSnowflakeChange
    \/ RenderEditRevoke
    \/ RenderSnowflakeRevoke

SpecRenderAll == InitRender /\ [][NextRenderAll]_vars

SameText(path, other) ==
    (path \in DOMAIN rendered /\ other \in DOMAIN rendered)
        => /\ ~rendered[path].raised
           /\ ~rendered[other].raised
           /\ rendered[path].sql = rendered[other].sql

\* C30: for every privilege spec and role the GRANT statement of the preview
\* (create mode and edit mode) is the text generate_sql_for_change renders for
\* grant_privilege without grant option, and the REVOKE statement of the
\* edit-mode preview is the text it renders for revoke_privilege, imported
\* databases included.
C30_PreviewMatchesGenerator ==
    /\ ~render_request.with_grant_option =>
          (SameText("create", "change") /\ SameText("edit", "change"))
    /\ SameText("edit_revoke", "change_revoke")

\* the grant half of the property
C30_GrantTextsAgree ==
    ~render_request.with_grant_option =>
        (SameText("create", "change") /\ SameText("edit", "change"))

(***************************************************************************)
(* Decomposition of object names by the Snowflake connector                *)
(* (services/sync/snowflake.py).  A name is the sequence of its            *)
(* characters, so that splitting on "." is computed and not assumed.       *)
(***************************************************************************)
MaxNameLen == 4

NameAlphabet == {"A", "B", "."}

\* the values of the granted_on column that are tried
GrantedOnUniverse ==
    {"DATABASE", "SCHEMA", "TABLE", "VIEW", "STAGE", "FILE_FORMAT", "SEQUENCE", "STREAM",
     "TASK", "PROCEDURE", "FUNCTION", "WAREHOUSE", "ROLE", "ACCOUNT", "table", "database",
     ""}

\* str.split("."): the parts between the dots, empty parts included
RECURSIVE SplitDots(_, _, _)
SplitDots(chars, i, current) ==
    IF i > Len(chars)
    THEN <<current>>
    ELSE IF chars[i] = "."
         THEN <<current>> \o SplitDots(chars, i + 1, "")
         ELSE SplitDots(chars, i + 1, current \o chars[i])

\* the name as one string
RECURSIVE FullName(_)
FullName(chars) == IF chars = <<>> THEN "" ELSE Head(chars) \o FullName(Tail(chars))

NamespacedKinds ==
    {"TABLE", "VIEW", "STAGE", "FILE_FORMAT", "SEQUENCE", "STREAM", "TASK", "PROCEDURE",
     "FUNCTION"}

\* a rendering that files a two-part name under the database
parse_object_name_TwoPartsAsDatabase(has_name, chars, object_type) ==
    IF ~has_name \/ chars = <<>>
    THEN <<None, None, None>>
    ELSE LET parts == SplitDots(chars, 1, "")
             obj_type_upper == Upper(object_type)
         IN  IF obj_type_upper = "DATABASE"
             THEN <<parts[1], None, parts[1]>>
             ELSE IF obj_type_upper = "SCHEMA"
             THEN IF Len(parts) >= 2
                  THEN <<parts[1], parts[2], parts[2]>>
                  ELSE <<None, parts[1], parts[1]>>
             ELSE IF obj_type_upper \in NamespacedKinds
             THEN IF Len(parts) >= 3
                  THEN <<parts[1], parts[2], parts[3]>>
                  ELSE IF Len(parts) = 2
                  THEN <<parts[1], None, parts[2]>>
                  ELSE <<None, None, parts[1]>>
             ELSE <<None, None, FullName(chars)>>

\* snowflake.py:195-224; the result is (database, schema, object_name)
parse_object_name(has_name, chars, object_type) ==
    IF ~has_name \/ chars = <<>>
    THEN <<None, None, None>>
    ELSE LET parts == SplitDots(chars, 1, "")
             obj_type_upper == Upper(object_type)
         IN  IF obj_type_upper = "DATABASE"
             THEN <<parts[1], None, parts[1]>>
             ELSE IF obj_type_upper = "SCHEMA"
             THEN IF Len(parts) >= 2
                  THEN <<parts[1], parts[2], parts[2]>>
                  ELSE <<None, parts[1], parts[1]>>
             ELSE IF obj_type_upper \in NamespacedKinds
             THEN IF Len(parts) >= 3
                  THEN <<parts[1], parts[2], parts[3]>>
                  ELSE IF Len(parts) = 2
                  THEN <<None, parts[1], parts[2]>>
                  ELSE <<None, None, parts[1]>>
             ELSE <<None, None, FullName(chars)>>

\* a row of SHOW GRANTS TO ROLE: its name column may be missing
GrantRowUniverse ==
    {[has_name |-> h, name |-> n, granted_on |-> t] :
        h \in BOOLEAN, n \in SeqsUpTo(NameAlphabet, MaxNameLen), t \in GrantedOnUniverse}

InitParse ==
    /\ pc = "show_grants"
    /\ parse_input \in {row \in GrantRowUniverse : row.has_name \/ row.name = <<>>}
    /\ parsed = <<>>
    /\ tasks = <<>>
    /\ changesets = <<>>
    /\ cli = [at |-> "off"]
    /\ platform_log = <<>>
    /\ AccessIdle
    /\ PreviewIdle
    /\ RenderIdle
    /\ ChangesetIdle
    /\ RoleTypeIdle
    /\ SyncIdle

\* snowflake.py:241-243
ParseObjectName ==
    /\ pc = "show_grants"
    /\ parsed' = parse_object_name(parse_input.has_name, parse_input.name,
                                   parse_input.granted_on)
    /\ pc' = "parsed"
    /\ UNCHANGED <<parse_input, tasks, changesets, cli, platform_log, accessVars,
                   previewVars, renderVars, changesetVars, roleTypeVars, syncVars>>

NextParse == ParseObjectName

SpecParse == InitParse /\ [][NextParse]_vars

\* the parts of the name that was parsed and the kind of its object
NameParts == SplitDots(parse_input.name, 1, "")

NameGiven == parse_input.has_name /\ parse_input.name # <<>>

KindOf(row) == Upper(row.granted_on)

\* C25: _parse_object_name returns three components for every name and every
\* type.  For a non-empty name: DATABASE gives the first part as database and
\* no schema; SCHEMA with two or more parts gives part 1 and part 2 as
\* database and schema; a namespaced kind gives parts 1, 2, 3 when there are
\* three or more parts and (no database, part 1, part 2) when there are
\* exactly two; any other type gives no database, no schema and the full name
\* as object name.  An absent name gives three absent components.
C25_ParseObjectName ==
    pc = "parsed" =>
        /\ Len(parsed) = 3
        /\ ~NameGiven => parsed = <<None, None, None>>
        /\ NameGiven =>
              LET kind == KindOf(parse_input)
                  n == Len(NameParts)
              IN  /\ kind = "DATABASE" =>
                        parsed[1] = NameParts[1] /\ parsed[2] = None
                  /\ (kind = "SCHEMA" /\ n >= 2) =>
                        parsed[1] = NameParts[1] /\ parsed[2] = NameParts[2]
                  /\ (kind \in NamespacedKinds /\ n >= 3) =>
                        parsed = <<NameParts[1], NameParts[2], NameParts[3]>>
                  /\ (kind \in NamespacedKinds /\ n = 2) =>
                        parsed = <<None, NameParts[1], NameParts[2]>>
                  /\ kind \notin NamespacedKinds \cup {"DATABASE", "SCHEMA"} =>
                        parsed = <<None, None, FullName(parse_input.name)>>

\* a two-part table name was parsed into schema and table
C25_Witness ==
    /\ pc = "parsed"
    /\ parse_input.granted_on = "TABLE"
    /\ parse_input.name = <<"A", ".", "B">>
    /\ parsed = <<None, "A", "B">>

(***************************************************************************)
(* The sync driver: trigger_sync (routers/sync.py) stores a run and queues *)
(* run_sync (services/sync/service.py) as a background task.  Every step   *)
(* of run_sync ends with a commit, so the steps of two tasks that are      *)
(* served by different workers interleave at the commits.                  *)
(***************************************************************************)

\* base.py:47-55, a grant as a connector reports it
ConnectorGrant(privilege, object_name) ==
    [privilege |-> privilege, object_type |-> "TABLE", object_name |-> object_name,
     grantee_type |-> "ROLE", grantee_name |-> "ANALYST", with_grant_option |-> FALSE,
     granted_by |-> "SECURITYADMIN"]

\* what sync_grants may return: the platform has no grant, one grant, or the
\* grant was replaced by another one
PlatformStates ==
    {<<>>, <<ConnectorGrant("SELECT", "ORDERS")>>, <<ConnectorGrant("INSERT", "ORDERS")>>}

\* service.py:341-352, the row _upsert_grants adds for a grant
StoredGrant(grant) ==
    [privilege |-> grant.privilege, object_type |-> grant.object_type,
     object_name |-> grant.object_name, grantee_type |-> grant.grantee_type,
     grantee_name |-> grant.grantee_name, with_grant_option |-> grant.with_grant_option,
     granted_by |-> grant.granted_by]

\* a variant that deletes the rows of the connection before it adds
upsert_grants_Replace(stored, returned) ==
    [i \in 1..Len(returned) |-> StoredGrant(returned[i])]

\* service.py:334-354
upsert_grants(stored, returned) ==
    stored \o [i \in 1..Len(returned) |-> StoredGrant(returned[i])]

\* factory.py:7-32: the platforms get_connector builds a connector for
ConnectorPlatforms == {"snowflake"}

\* the steps of run_sync in order (service.py:24-33), then the final commit
StepAfter(step) ==
    CASE step = "step1" -> "step2"
      [] step = "step2" -> "step3"
      [] step = "step3" -> "step4"
      [] step = "step4" -> "step5"
      [] step = "step5" -> "step6"
      [] step = "step6" -> "step7"
      [] step = "step7" -> "step8"
      [] step = "step8" -> "completing"

\* the steps between two commits that call the connector and store nothing
\* the grant snapshot depends on
PlainSteps == {"step2", "step3", "step4", "step6", "step7", "step8"}

\* step 8 reads and writes the database only
ConnectorSteps == {"step2", "step3", "step4", "step5", "step6", "step7"}

Executing(task) == task.at \notin {"returned", "raised"}

outsideSyncRun ==
    <<pc, all_assignments, user_found, user_direct_roles, role_children,
      roles_with_paths, role_to_path, visited_roles, stack, root_idx, grants, access,
      previewVars, renderVars, changeset, session, store, roleTypeVars, sync_batch,
      parse_input, parsed, changesets, cli, platform_log>>

InitSyncRun ==
    /\ pc = "sync_idle"
    /\ connection \in {[found |-> f, platform |-> p, last_sync_status |-> None,
                        last_sync_error |-> None] :
                          f \in BOOLEAN, p \in {"snowflake", "databricks"}}
    /\ sync_runs = <<>>
    /\ tasks = <<>>
    /\ platform_grants = <<>>
    /\ response = [status |-> 0]
    /\ all_assignments = <<>>
    /\ user_found = FALSE
    /\ user_direct_roles = <<>>
    /\ role_children = EmptyDict
    /\ roles_with_paths = <<>>
    /\ role_to_path = EmptyDict
    /\ visited_roles = {}
    /\ stack = <<>>
    /\ root_idx = 1
    /\ grants = <<>>
    /\ access = NoAccess
    /\ PreviewIdle
    /\ RenderIdle
    /\ changeset = [changes |-> <<>>]
    /\ session = <<>>
    /\ store = <<>>
    /\ RoleTypeIdle
    /\ sync_batch = <<>>
    /\ parse_input = [granted_on |-> ""]
    /\ parsed = <<>>
    /\ changesets = <<>>
    /\ cli = [at |-> "off"]
    /\ platform_log = <<>>

\* routers/sync.py:23-35
TriggerSyncNotFound ==
    /\ ~connection.found
    /\ response.status = 0
    /\ response' = [status |-> 404]
    /\ UNCHANGED <<connection, sync_runs, tasks, platform_grants, outsideSyncRun>>

\* routers/sync.py:37-49: the run is stored with the column default
\* status = "running" (models/database.py:341) and run_sync is queued
TriggerSync ==
    /\ connection.found
    /\ Len(sync_runs) < MaxSyncs
    /\ sync_runs' = Append(sync_runs, [status |-> "running", error_message |-> None])
    /\ tasks' = Append(tasks, [at |-> "step1", grants |-> <<>>, error |-> None])
    /\ response' = [status |-> 200]
    /\ UNCHANGED <<connection, platform_grants, outsideSyncRun>>

\* service.py:148-170 and 239-243: step 1.  Reading the credentials and
\* building the connector happen before the inner try; what they raise is
\* caught by the outer handler, which rolls back and raises again.
Connect(i) ==
    /\ tasks[i].at = "step1"
    /\ \E credentials_read \in BOOLEAN :
          IF ~credentials_read
          THEN tasks' = [tasks EXCEPT ![i].at = "raised",
                                      ![i].error = "Failed to retrieve credentials"]
          ELSE IF connection.platform \notin ConnectorPlatforms
          THEN tasks' = [tasks EXCEPT ![i].at = "raised",
                                      ![i].error = "connector coming soon"]
          ELSE tasks' = [tasks EXCEPT ![i].at = "step2"]
    /\ UNCHANGED <<connection, sync_runs, platform_grants, response, outsideSyncRun>>

\* service.py:172-190 and 199-214: a step other than step 5, up to its commit
SyncStep(i) ==
    /\ tasks[i].at \in PlainSteps
    /\ tasks' = [tasks EXCEPT ![i].at = StepAfter(tasks[i].at)]
    /\ UNCHANGED <<connection, sync_runs, platform_grants, response, outsideSyncRun>>

\* service.py:192-197 with _upsert_grants (service.py:334-354)
SyncGrants(i) ==
    /\ tasks[i].at = "step5"
    /\ \E returned \in PlatformStates :
          /\ platform_grants' = upsert_grants(platform_grants, returned)
          /\ tasks' = [tasks EXCEPT ![i].at = "step6", ![i].grants = returned]
    /\ UNCHANGED <<connection, sync_runs, response, outsideSyncRun>>

\* service.py:225-237: a call of the connector raised inside the inner try
FailStep(i) ==
    /\ tasks[i].at \in ConnectorSteps
    /\ LET error == "platform error in " \o tasks[i].at
       IN  /\ tasks' = [tasks EXCEPT ![i].at = "returned", ![i].error = error]
           /\ sync_runs' = [sync_runs EXCEPT ![i] = [status |-> "failed",
                                                      error_message |-> error]]
           /\ connection' = [connection EXCEPT !.last_sync_status = "failed",
                                               !.last_sync_error = error]
    /\ UNCHANGED <<platform_grants, response, outsideSyncRun>>

\* service.py:216-223 and 233-237
CompleteRun(i) ==
    /\ tasks[i].at = "completing"
    /\ tasks' = [tasks EXCEPT ![i].at = "returned"]
    /\ sync_runs' = [sync_runs EXCEPT ![i].status = "completed"]
    /\ connection' = [connection EXCEPT !.last_sync_status = "success",
                                        !.last_sync_error = None]
    /\ UNCHANGED <<platform_grants, response, outsideSyncRun>>

NextSyncRun ==
    \/ TriggerSyncNotFound
    \/ TriggerSync
    \/ \E i \in 1..Len(tasks) : Connect(i)
    \/ \E i \in 1..Len(tasks) : SyncStep(i)
    \/ \E i \in 1..Len(tasks) : SyncGrants(i)
    \/ \E i \in 1..Len(tasks) : FailStep(i)
    \/ \E i \in 1..Len(tasks) : CompleteRun(i)

SpecSyncRun == InitSyncRun /\ [][NextSyncRun]_vars

\* a background task that was queued runs, and runs to its end
TaskStep(i) ==
    i <= Len(tasks) /\ (Connect(i) \/ SyncStep(i) \/ SyncGrants(i) \/ FailStep(i)
                            \/ CompleteRun(i))

FairSpecSyncRun == SpecSyncRun /\ \A i \in 1..MaxSyncs : WF_vars(TaskStep(i))

\* the caller triggers a sync only when no sync of the connection is executing
TriggerSyncSerially ==
    /\ \A i \in 1..Len(tasks) : ~Executing(tasks[i])
    /\ TriggerSync

NextSyncSerial ==
    \/ TriggerSyncNotFound
    \/ TriggerSyncSerially
    \/ \E i \in 1..Len(tasks) : Connect(i)
    \/ \E i \in 1..Len(tasks) : SyncStep(i)
    \/ \E i \in 1..Len(tasks) : SyncGrants(i)
    \/ \E i \in 1..Len(tasks) : FailStep(i)
    \/ \E i \in 1..Len(tasks) : CompleteRun(i)

SpecSyncSerial == InitSyncRun /\ [][NextSyncSerial]_vars

(***************************************************************************)
(* Properties of the sync driver                                           *)
(***************************************************************************)
LastRun == Len(sync_runs)

InProgress(i) ==
    /\ sync_runs[i].status = "running"
    /\ tasks[i].at \in {"step2", "step3", "step4", "step5", "step6", "step7", "step8",
                        "completing"}

RunEnded(i) == Len(sync_runs) >= i /\ sync_runs[i].status \in {"completed", "failed"}

\* the step that task i takes ends the task with an error
FailsNow(i) ==
    /\ i <= Len(tasks)
    /\ tasks[i].error = None
    /\ tasks'[i].error # None

\* C22: every run that was started eventually ends "completed" or "failed",
\* and a step that fails, step 1 included, leaves the run "failed" with the
\* error as its message and the connection with last_sync_status "failed".
C22_RunLeavesRunning ==
    /\ \A i \in 1..MaxSyncs : [](Len(sync_runs) >= i => <>RunEnded(i))
    /\ [][\A i \in 1..MaxSyncs :
             FailsNow(i) => /\ sync_runs'[i].status = "failed"
                            /\ sync_runs'[i].error_message = tasks'[i].error
                            /\ connection'.last_sync_status = "failed"]_vars

MaxChangesets == 2

ChangesetIds == 1..MaxChangesets

Reviewer == "operator@example.com"

\* models/database.py:256-262, a row as create_changeset stores it
DraftChangeset == [status |-> "draft", reviewed_by |-> None, applied_via |-> None]

\* a variant that approves from every status
CanApprove_Always(changeset_status) == TRUE

\* changesets.py:155
CanApprove(changeset_status) == changeset_status \in {"draft", "pending_review"}

\* changesets.py:226
CanRequestReview(changeset_status) == changeset_status = "draft"

\* a variant that deletes in every status
CanDelete_Always(changeset_status) == TRUE

\* changesets.py:258
CanDelete(changeset_status) == changeset_status \in {"draft", "pending_review"}

Found(id) == id \in DOMAIN changesets

Answer(call, id, status) == [call |-> call, id |-> id, status |-> status]

outsideLifecycle ==
    <<pc, accessVars, previewVars, renderVars, connection, changeset, session, store,
      roleTypeVars, syncVars, parse_input, parsed, tasks, cli, platform_log>>

InitLifecycle ==
    /\ pc = "changesets"
    /\ changesets = [id \in ChangesetIds |-> DraftChangeset]
    /\ response = [status |-> 0]
    /\ connection = [found |-> FALSE]
    /\ changeset = [changes |-> <<>>]
    /\ session = <<>>
    /\ store = <<>>
    /\ parse_input = [granted_on |-> ""]
    /\ parsed = <<>>
    /\ tasks = <<>>
    /\ cli = [at |-> "off"]
    /\ platform_log = <<>>
    /\ AccessIdle
    /\ PreviewIdle
    /\ RenderIdle
    /\ RoleTypeIdle
    /\ SyncIdle

\* changesets.py:133-168
ApproveChangeset(id) ==
    /\ IF ~Found(id)
       THEN /\ response' = Answer("approve", id, 404)
            /\ UNCHANGED changesets
       ELSE IF ~CanApprove(changesets[id].status)
       THEN /\ response' = Answer("approve", id, 400)
            /\ UNCHANGED changesets
       ELSE /\ changesets' = [changesets EXCEPT ![id].status = "approved",
                                                ![id].reviewed_by = Reviewer]
            /\ response' = Answer("approve", id, 200)
    /\ UNCHANGED outsideLifecycle

\* changesets.py:171-202
MarkChangesetApplied(id) ==
    /\ IF ~Found(id)
       THEN /\ response' = Answer("mark-applied", id, 404)
            /\ UNCHANGED changesets
       ELSE /\ changesets' = [changesets EXCEPT ![id].status = "applied",
                                                ![id].applied_via = "cli"]
            /\ response' = Answer("mark-applied", id, 200)
    /\ UNCHANGED outsideLifecycle

\* changesets.py:205-235
RequestChangesetReview(id) ==
    /\ IF ~Found(id)
       THEN /\ response' = Answer("request-review", id, 404)
            /\ UNCHANGED changesets
       ELSE IF ~CanRequestReview(changesets[id].status)
       THEN /\ response' = Answer("request-review", id, 400)
            /\ UNCHANGED changesets
       ELSE /\ changesets' = [changesets EXCEPT ![id].status = "pending_review"]
            /\ response' = Answer("request-review", id, 200)
    /\ UNCHANGED outsideLifecycle

\* changesets.py:238-273
DeleteChangeset(id) ==
    /\ IF ~Found(id)
       THEN /\ response' = Answer("delete", id, 404)
            /\ UNCHANGED changesets
       ELSE IF ~CanDelete(changesets[id].status)
       THEN /\ response' = Answer("delete", id, 400)
            /\ UNCHANGED changesets
       ELSE /\ changesets' = [other \in DOMAIN changesets \ {id} |-> changesets[other]]
            /\ response' = Answer("delete", id, 204)
    /\ UNCHANGED outsideLifecycle

NextLifecycle ==
    \/ \E id \in ChangesetIds : ApproveChangeset(id)
    \/ \E id \in ChangesetIds : MarkChangesetApplied(id)
    \/ \E id \in ChangesetIds : RequestChangesetReview(id)
    \/ \E id \in ChangesetIds : DeleteChangeset(id)

SpecLifecycle == InitLifecycle /\ [][NextLifecycle]_vars

\* C24: a changeset in status "applied" was approved before.  reviewed_by is
\* written by approve_changeset only, together with the status "approved",
\* so it tells whether the changeset ever had that status.
C24_AppliedWasApproved ==
    \A id \in DOMAIN changesets :
        changesets[id].status = "applied" => changesets[id].reviewed_by # None

Settled == {"approved", "applied"}

Accepted(call) == response'.call = call /\ response'.status \in {200, 204}

Rejected == response'.status \in {400, 404}

\* C28: a changeset in status "approved" or "applied" is not deleted and
\* stays in one of these two statuses; request-review is accepted from
\* "draft" only and approve from "draft" or "pending_review" only; a
\* rejected call changes no changeset.
C28_StatusMovesForward ==
    [][/\ \A id \in DOMAIN changesets :
             changesets[id].status \in Settled =>
                 /\ id \in DOMAIN changesets'
                 /\ changesets'[id].status \in Settled
                 /\ changesets[id].status = "applied" => changesets'[id].status = "applied"
       /\ Accepted("request-review") => changesets[response'.id].status = "draft"
       /\ Accepted("approve") =>
             changesets[response'.id].status \in {"draft", "pending_review"}
       /\ Rejected => changesets' = changesets]_vars

\* the delete of an approved changeset was rejected and the changeset then
\* marked applied
C28_Witness ==
    /\ response = Answer("mark-applied", 1, 200)
    /\ changesets[1].status = "applied"
    /\ changesets[1].reviewed_by = Reviewer
    /\ 2 \notin DOMAIN changesets

(***************************************************************************)
(* The CLI apply command (packages/cli/grantd_cli/commands/apply.py): it   *)
(* fetches the changeset through get_changeset, executes the statements on *)
(* the platform and posts mark-applied.                                    *)
(***************************************************************************)

\* changes that create_changeset renders for a Snowflake connection
ApplyChanges ==
    {Change("create_role", "role", "R", [comment |-> "etl"]),
     Change("grant_role", "role", "R", [grantee |-> "alice"]),
     Change("drop_role", "role", "R", NoDetails)}

\* changesets.py:75-93: the Change rows of a request, execution_order = idx + 1
CreatedChanges(request) ==
    [k \in 1..Len(request.changes) |->
        LET change == request.changes[k]
            idx == k - 1
        IN  ChangeRow(change,
                      generate_sql_for_change("snowflake", change.change_type,
                                              change.object_type, change.object_name,
                                              change.details).sql,
                      idx + 1)]

\* the orders in which the table may hold the rows
TableOrders(rows) ==
    {table \in [1..Len(rows) -> Range(rows)] : Range(table) = Range(rows)}

Without(rows, i) == [k \in 1..(Len(rows) - 1) |-> IF k < i THEN rows[k] ELSE rows[k + 1]]

\* a query without ORDER BY
OrderByExecutionOrder_TableOrder(rows) == rows

\* changesets.py:121-126, ORDER BY execution_order
RECURSIVE OrderByExecutionOrder(_)
OrderByExecutionOrder(rows) ==
    IF rows = <<>>
    THEN <<>>
    ELSE LET first == CHOOSE i \in 1..Len(rows) :
                         \A j \in 1..Len(rows) :
                             rows[i].execution_order <= rows[j].execution_order
         IN  <<rows[first]>> \o OrderByExecutionOrder(Without(rows, first))

outsideApply ==
    <<pc, accessVars, previewVars, renderVars, connection, changeset, session, store,
      response, roleTypeVars, syncVars, parse_input, parsed, tasks>>

InitApply ==
    /\ pc = "apply"
    /\ connection = [found |-> TRUE, platform |-> "snowflake"]
    /\ changeset \in {[changes |-> c] : c \in SeqsUpTo(ApplyChanges, MaxChanges)}
    /\ session = <<>>
    /\ store \in TableOrders(CreatedChanges(changeset))
    /\ response = [status |-> 201]
    /\ changesets \in {[id \in {1} |-> [DraftChangeset EXCEPT !.status = s]] :
                          s \in {"draft", "pending_review", "approved"}}
    /\ cli = [at |-> "start"]
    /\ platform_log = <<>>
    /\ parse_input = [granted_on |-> ""]
    /\ parsed = <<>>
    /\ tasks = <<>>
    /\ AccessIdle
    /\ PreviewIdle
    /\ RenderIdle
    /\ RoleTypeIdle
    /\ SyncIdle

\* apply.py:32-55 with get_changeset (changesets.py:100-130)
CliFetch ==
    /\ cli.at = "start"
    /\ LET changes == OrderByExecutionOrder(store)
       IN  IF changes = <<>>
           THEN cli' = [at |-> "no_changes", status |-> changesets[1].status,
                        sql_statements |-> <<>>, success_count |-> 0]
           ELSE cli' = [at |-> "confirm", status |-> changesets[1].status,
                        sql_statements |->
                            [k \in 1..Len(changes) |-> changes[k].sql_statement],
                        success_count |-> 0]
    /\ UNCHANGED <<changesets, platform_log, outsideApply>>

\* apply.py:59-63
CliConfirm ==
    /\ cli.at = "confirm"
    /\ \E confirmed \in BOOLEAN :
          cli' = [cli EXCEPT !.at = IF confirmed THEN "executing" ELSE "cancelled"]
    /\ UNCHANGED <<changesets, platform_log, outsideApply>>

\* apply.py:83-98: one turn of the loop; a statement that fails is reported
\* and the loop goes on
CliExecute ==
    /\ cli.at = "executing"
    /\ Len(platform_log) < Len(cli.sql_statements)
    /\ LET sql == cli.sql_statements[Len(platform_log) + 1]
       IN  \E ok \in BOOLEAN :
              /\ platform_log' = Append(platform_log, [sql |-> sql, ok |-> ok])
              /\ cli' = [cli EXCEPT !.success_count = IF ok THEN @ + 1 ELSE @]
    /\ UNCHANGED <<changesets, outsideApply>>

\* apply.py:100-105 with mark_changeset_applied (changesets.py:171-202)
CliFinish ==
    /\ cli.at = "executing"
    /\ Len(platform_log) = Len(cli.sql_statements)
    /\ IF cli.success_count = Len(cli.sql_statements)
       THEN /\ changesets' = [changesets EXCEPT ![1].status = "applied",
                                                ![1].applied_via = "cli"]
            /\ cli' = [cli EXCEPT !.at = "applied"]
       ELSE /\ cli' = [cli EXCEPT !.at = "partial"]
            /\ UNCHANGED changesets
    /\ UNCHANGED <<platform_log, outsideApply>>

NextApply ==
    \/ CliFetch
    \/ CliConfirm
    \/ CliExecute
    \/ CliFinish

SpecApply == InitApply /\ [][NextApply]_vars

\* the statement rendered for the k-th change of the request
SubmittedStatement(k) ==
    LET change == changeset.changes[k]
    IN  generate_sql_for_change("snowflake", change.change_type, change.object_type,
                                change.object_name, change.details).sql

Failed == \E k \in 1..Len(platform_log) : ~platform_log[k].ok

\* C26: the k-th statement sent to the platform is the statement of the k-th
\* submitted change; the changeset is "applied" only after every statement
\* was executed and succeeded; when a statement failed the changeset keeps
\* the status it had when it was fetched.
C26_ApplyInOrder ==
    /\ Len(platform_log) <= Len(changeset.changes)
    /\ \A k \in 1..Len(platform_log) : platform_log[k].sql = SubmittedStatement(k)
    /\ changesets[1].status = "applied" =>
          /\ Len(platform_log) = Len(changeset.changes)
          /\ ~Failed
    /\ (Failed /\ cli.at \in {"executing", "partial"}) =>
          changesets[1].status = cli.status

\* two different statements were executed in the submitted order, the first
\* one failed, and the changeset was left as it was
C26_Witness ==
    /\ cli.at = "partial"
    /\ Len(platform_log) = 2
    /\ platform_log[1].sql # platform_log[2].sql
    /\ ~platform_log[1].ok
    /\ platform_log[2].ok
    /\ store[1].execution_order = 2
    /\ changesets[1].status = "approved"

====
